---- MODULE Spec2Model ----
(***************************************************************************)
(* A model of the retrieval-and-tuning core of chatbot-RAG:                *)
(*   - FeedbackSystem     (app/utils/feedback_system.py)                   *)
(*   - BM25Retriever and HybridRetriever (app/utils/hybrid_retrieval.py)   *)
(*   - the rerank pipeline of RAGRetriever.retrieve_context                *)
(*                        (app/retrievers/rag.py)                          *)
(*   - QueryAnalyzer      (app/utils/query_analyzer.py)                    *)
(*                                                                         *)
(* Each component has its own specification (SpecFeedback, SpecSearch,     *)
(* SpecRerank, SpecAnalyzer); the variables of the other components stay   *)
(* at their initial values.                                                *)
(*                                                                         *)
(* Number conventions.  Times are whole hours.  Python floats in [0,1]     *)
(* (thresholds, weights, normalized scores) are integers in thousandths;   *)
(* a comparison of two float expressions is made on the exact values       *)
(* cross-multiplied, so no rounding is introduced by the model.            *)
(***************************************************************************)
EXTENDS Integers, Sequences, FiniteSets, TLC

VARIABLES
    \* ---- FeedbackSystem ----
    now,                \* datetime.now(), in hours
    feedback_entries,   \* self.feedback_entries   (deque, oldest first)
    recent_adjustments, \* self.recent_adjustments (deque, oldest first)
    optimal_params,     \* self.optimal_params
    feedback_file,      \* data/user_feedback.json
    adjustments_file,   \* data/parameter_adjustments.json
    config_file,        \* data/feedback_config.json
    fb_last,            \* what the last operation on the FeedbackSystem did
    disk,               \* the files a failed write left torn, and the last call's writes
    \* ---- BM25Retriever / HybridRetriever ----
    bm25,               \* HybridRetriever.bm25 (a BM25Retriever)
    hybrid,             \* the HybridRetriever's own fields
    search_out,         \* the last search call and what it returned
    \* ---- RAGRetriever ----
    rag,                \* the retriever's models and its retrieve_context call
    retrieval,          \* RAGRetriever.vectorstore and the retrieve_context call made on it
    \* ---- QueryAnalyzer ----
    analysis,           \* the last analyze_query call and its QueryAnalysis
    \* ---- callers ----
    threads,            \* the calls in progress on the FeedbackSystem, each with its position
    racing,             \* the calls in progress on one BM25Retriever
    sessions,           \* the session cookie of each client and the last response
    monitor             \* the PerformanceMonitor singleton and its loop threads

fbVars == <<now, feedback_entries, recent_adjustments, optimal_params,
            feedback_file, adjustments_file, config_file, fb_last, disk>>

searchVars == <<bm25, hybrid, search_out>>

ragVars == <<rag, retrieval>>

analyzerVars == <<analysis>>

callerVars == <<threads, racing, sessions, monitor>>

vars == <<fbVars, searchVars, ragVars, analyzerVars, callerVars>>

\* What the operations of one component leave alone.
exceptFeedback == <<searchVars, ragVars, analyzerVars, callerVars>>
exceptSearch == <<fbVars, ragVars, analyzerVars, callerVars>>
exceptRag == <<fbVars, searchVars, analyzerVars, callerVars>>
exceptAnalyzer == <<fbVars, searchVars, ragVars, callerVars>>

(***************************************************************************)
(* Generic sequence helpers                                                *)
(***************************************************************************)
Min2(a, b) == IF a <= b THEN a ELSE b
Max2(a, b) == IF a >= b THEN a ELSE b

\* Python s[:n] for n >= 0
Take(s, n) == SubSeq(s, 1, Min2(n, Len(s)))

\* Python s[-n:] for n >= 1
LastN(s, n) == SubSeq(s, Max2(1, Len(s) - n + 1), Len(s))

RECURSIVE SumSeq(_)
SumSeq(s) == IF s = <<>> THEN 0 ELSE Head(s) + SumSeq(Tail(s))

RECURSIVE Concat(_)
Concat(ss) == IF ss = <<>> THEN <<>> ELSE Head(ss) \o Concat(Tail(ss))

Range(s) == {s[i] : i \in 1..Len(s)}

(***************************************************************************)
(* FeedbackSystem: configuration (FeedbackSystem.__init__)                 *)
(***************************************************************************)
FeedbackMaxLen == 6            \* deque(maxlen=1000), scaled down
AdjustmentsMaxLen == 3         \* deque(maxlen=100), scaled down

min_feedback_for_adjustment == 5
negative_feedback_threshold == 400
positive_feedback_boost == 800
k_adjustment_min == 3
k_adjustment_max == 15
rerank_threshold_min == 100
rerank_threshold_max == 900
adjustment_cooldown_hours == 2
quality_weight == 600
user_rating_weight == 400
recent_window_hours == 24
min_group_entries == 3
default_retrieval_k == 5
default_rerank_threshold == 700

\* An absent Optional value (None) is the empty sequence, a present one <<v>>.
None == <<>>
Some(v) == <<v>>

FeedbackEntry(k, thr, method, rating, quality, t) ==
    [retrieval_k |-> k, rerank_threshold |-> thr, retrieval_method |-> method,
     rating |-> rating, quality_score |-> quality, timestamp |-> t]

\* The submissions POST /feedback/submit is given (the router accepts any int
\* and any float): the default parameters rated badly, and parameters outside
\* k_adjustment_range, on the other side of the tests of
\* _suggest_improvements, rated badly or well.
Submissions(t) ==
    { FeedbackEntry(5, 700, "hybrid", "negative", None, t),
      FeedbackEntry(20, 300, "hybrid", "negative", None, t),
      FeedbackEntry(20, 300, "hybrid", "positive", Some(5), t) }

ParameterAdjustment(name, old, new, conf, t) ==
    [parameter_name |-> name, old_value |-> old, new_value |-> new,
     confidence |-> conf, timestamp |-> t]

(***************************************************************************)
(* FeedbackSystem: persistence (_save_data, _load_existing_data)           *)
(*                                                                         *)
(* The in-memory object is the record                                      *)
(*   [entries, adjustments, params, feedback_file, adjustments_file,       *)
(*    config_file]                                                         *)
(* A file that does not exist is None, an existing one is Some(content).   *)
(* json.dump/json.load keep ints, strings, None and (through repr) floats  *)
(* unchanged, and asdict keeps every field of a dataclass, so an entry is  *)
(* written as the record it is.  The free-text fields (query, answer,      *)
(* reason, ids) are not modelled.                                          *)
(***************************************************************************)
\* collections.deque(maxlen=n).append(x)
deque_append(d, x, maxlen) ==
    LET s == Append(d, x) IN IF Len(s) > maxlen THEN Tail(s) ELSE s

RECURSIVE deque_extend(_, _, _)
deque_extend(d, xs, maxlen) ==
    IF xs = <<>> THEN d
    ELSE deque_extend(deque_append(d, Head(xs), maxlen), Tail(xs), maxlen)

default_optimal_params ==
    [retrieval_k |-> default_retrieval_k,
     rerank_threshold |-> default_rerank_threshold]

save_data(st) ==
    [st EXCEPT !.feedback_file = Some(st.entries),
               !.adjustments_file = Some(st.adjustments),
               !.config_file = Some([optimal_params |-> st.params])]

\* The state FeedbackSystem.__init__ builds from the three files.
load_existing_data(ffile, afile, cfile) ==
    [entries |->
        IF ffile = None THEN <<>>
        ELSE deque_extend(<<>>, LastN(ffile[1], FeedbackMaxLen), FeedbackMaxLen),
     adjustments |->
        IF afile = None THEN <<>>
        ELSE deque_extend(<<>>, LastN(afile[1], AdjustmentsMaxLen), AdjustmentsMaxLen),
     params |->
        IF cfile = None THEN default_optimal_params
        ELSE [f \in DOMAIN default_optimal_params |->
                IF f \in DOMAIN cfile[1].optimal_params
                THEN cfile[1].optimal_params[f]
                ELSE default_optimal_params[f]],
     feedback_file |-> ffile,
     adjustments_file |-> afile,
     config_file |-> cfile]

(***************************************************************************)
(* FeedbackSystem: analysis                                                *)
(***************************************************************************)
\* '%.2f' of a threshold given in thousandths, as hundredths (the submitted
\* thresholds do not end in 5, so no tie is rounded).
format_2f(thr) == (thr + 5) \div 10

\* The grouping key of _analyze_feedback_patterns.
param_key(e) ==
    <<e.retrieval_k, format_2f(e.rerank_threshold), e.retrieval_method>>

\* The keys of param_groups in dict (first insertion) order.
RECURSIVE param_group_keys(_, _)
param_group_keys(entries, seen) ==
    IF entries = <<>> THEN seen
    ELSE LET key == param_key(Head(entries)) IN
         param_group_keys(Tail(entries),
             IF key \in Range(seen) THEN seen ELSE Append(seen, key))

\* Entries newer than 24 hours.
recent_feedback(entries, t) ==
    SelectSeq(entries, LAMBDA e : e.timestamp > t - recent_window_hours)

\* A mutant of is_in_cooldown_period: the cooldown is one hour short.
is_in_cooldown_period_short(adjustments, t) ==
    /\ adjustments # <<>>
    /\ t < adjustments[Len(adjustments)].timestamp + adjustment_cooldown_hours - 1

is_in_cooldown_period(adjustments, t) ==
    /\ adjustments # <<>>
    /\ t < adjustments[Len(adjustments)].timestamp + adjustment_cooldown_hours

\* combined_score = positive_ratio * user_rating_weight
\*                  + (avg_quality / 5.0) * quality_weight
\* as the fraction combined_num / combined_den, in thousandths.
quality_scores(entries) ==
    LET have == SelectSeq(entries, LAMBDA e : e.quality_score # None) IN
    [i \in 1..Len(have) |-> have[i].quality_score[1]]

combined_den(entries) ==
    LET nq == Len(quality_scores(entries)) IN
    Len(entries) * 5 * (IF nq = 0 THEN 1 ELSE nq)

combined_num(entries) ==
    LET qs == quality_scores(entries)
        nq == IF Len(qs) = 0 THEN 1 ELSE Len(qs)
        positive == Len(SelectSeq(entries, LAMBDA e : e.rating = "positive"))
    IN positive * user_rating_weight * 5 * nq
         + SumSeq(qs) * quality_weight * Len(entries)

is_poor(entries) ==
    combined_num(entries) < negative_feedback_threshold * combined_den(entries)

is_great(entries) ==
    combined_num(entries) > positive_feedback_boost * combined_den(entries)

\* A mutant of suggest_improvements: the reranker threshold is never adjusted.
suggest_improvements_k_only(sample, t) ==
    LET current_k == sample.retrieval_k IN
    IF current_k < 8
    THEN <<ParameterAdjustment("retrieval_k", current_k,
               Min2(current_k + 2, k_adjustment_max), 800, t)>>
    ELSE <<ParameterAdjustment("retrieval_k", current_k,
               Max2(current_k - 1, k_adjustment_min), 700, t)>>

\* _suggest_improvements(sample_entry, performance_score)
suggest_improvements(sample, t) ==
    LET current_k == sample.retrieval_k
        current_threshold == sample.rerank_threshold
        k_adjustment ==
            IF current_k < 8
            THEN <<ParameterAdjustment("retrieval_k", current_k,
                       Min2(current_k + 2, k_adjustment_max), 800, t)>>
            ELSE IF current_k > 5
            THEN <<ParameterAdjustment("retrieval_k", current_k,
                       Max2(current_k - 1, k_adjustment_min), 700, t)>>
            ELSE <<>>
        threshold_adjustment ==
            IF current_threshold > 500
            THEN <<ParameterAdjustment("rerank_threshold", current_threshold,
                       Max2(current_threshold - 100, rerank_threshold_min), 700, t)>>
            ELSE <<>>
    IN k_adjustment \o threshold_adjustment

\* _reinforce_parameters(sample_entry, performance_score): the new
\* optimal_params (assigned at once) and the adjustments it returns.
reinforce_parameters(sample, params, t) ==
    [params |-> [params EXCEPT !.retrieval_k = sample.retrieval_k,
                               !.rerank_threshold = sample.rerank_threshold],
     adjustments |-> <<ParameterAdjustment("optimal_params_update", 0, 1, 900, t)>>]

\* A mutant of analyze_groups: a group of any size is evaluated.
RECURSIVE analyze_groups_any_size(_, _, _, _)
analyze_groups_any_size(keys, recent, acc, t) ==
    IF keys = <<>> THEN acc
    ELSE
      LET entries == SelectSeq(recent, LAMBDA e : param_key(e) = Head(keys))
          next ==
            IF is_poor(entries)
            THEN [acc EXCEPT !.adjustments = @ \o suggest_improvements(entries[1], t)]
            ELSE IF is_great(entries)
            THEN LET r == reinforce_parameters(entries[1], acc.params, t) IN
                 [params |-> r.params,
                  adjustments |-> acc.adjustments \o r.adjustments]
            ELSE acc
      IN analyze_groups_any_size(Tail(keys), recent, next, t)

\* The loop of _analyze_feedback_patterns over param_groups: acc holds the
\* adjustments collected so far and optimal_params as the loop has changed them.
RECURSIVE analyze_groups(_, _, _, _)
analyze_groups(keys, recent, acc, t) ==
    IF keys = <<>> THEN acc
    ELSE
      LET entries == SelectSeq(recent, LAMBDA e : param_key(e) = Head(keys))
          next ==
            IF Len(entries) < min_group_entries THEN acc
            ELSE IF is_poor(entries)
            THEN [acc EXCEPT !.adjustments = @ \o suggest_improvements(entries[1], t)]
            ELSE IF is_great(entries)
            THEN LET r == reinforce_parameters(entries[1], acc.params, t) IN
                 [params |-> r.params,
                  adjustments |-> acc.adjustments \o r.adjustments]
            ELSE acc
      IN analyze_groups(Tail(keys), recent, next, t)

analyze_feedback_patterns(recent, params, t) ==
    analyze_groups(param_group_keys(recent, <<>>), recent,
                   [params |-> params, adjustments |-> <<>>], t)

\* A mutant of apply_parameter_adjustment: the state is saved before the
\* parameter is assigned.
apply_parameter_adjustment_save_first(st, adj) ==
    LET s1 == save_data([st EXCEPT !.adjustments =
                            deque_append(@, adj, AdjustmentsMaxLen)])
    IN [s1 EXCEPT !.params =
            IF adj.parameter_name = "retrieval_k"
            THEN [@ EXCEPT !.retrieval_k = adj.new_value]
            ELSE IF adj.parameter_name = "rerank_threshold"
            THEN [@ EXCEPT !.rerank_threshold = adj.new_value]
            ELSE @]

\* _apply_parameter_adjustment(adjustment)
apply_parameter_adjustment(st, adj) ==
    LET s1 == [st EXCEPT !.adjustments = deque_append(@, adj, AdjustmentsMaxLen)]
        s2 == [s1 EXCEPT !.params =
                 IF adj.parameter_name = "retrieval_k"
                 THEN [@ EXCEPT !.retrieval_k = adj.new_value]
                 ELSE IF adj.parameter_name = "rerank_threshold"
                 THEN [@ EXCEPT !.rerank_threshold = adj.new_value]
                 ELSE @]
    IN save_data(s2)

RECURSIVE apply_all(_, _)
apply_all(st, adjustments) ==
    IF adjustments = <<>> THEN st
    ELSE apply_all(apply_parameter_adjustment(st, Head(adjustments)),
                   Tail(adjustments))

\* What _check_for_parameter_adjustments gets from the analysis, when it gets
\* that far: the two early returns leave optimal_params alone and apply nothing.
\* A mutant: the count of all entries, recent or not, is compared with
\* min_feedback_for_adjustment.
adjustment_analysis_all_entries(st, t) ==
    LET recent == recent_feedback(st.entries, t) IN
    IF Len(st.entries) < min_feedback_for_adjustment
    THEN [params |-> st.params, adjustments |-> <<>>]
    ELSE IF is_in_cooldown_period(st.adjustments, t)
    THEN [params |-> st.params, adjustments |-> <<>>]
    ELSE analyze_feedback_patterns(recent, st.params, t)

adjustment_analysis(st, t) ==
    LET recent == recent_feedback(st.entries, t) IN
    IF Len(recent) < min_feedback_for_adjustment
    THEN [params |-> st.params, adjustments |-> <<>>]
    ELSE IF is_in_cooldown_period(st.adjustments, t)
    THEN [params |-> st.params, adjustments |-> <<>>]
    ELSE analyze_feedback_patterns(recent, st.params, t)

\* _check_for_parameter_adjustments()
check_for_parameter_adjustments(st, t) ==
    LET a == adjustment_analysis(st, t) IN
    apply_all([st EXCEPT !.params = a.params], a.adjustments)

\* log_feedback(...): append, save, check.
log_feedback(st, entry, t) ==
    LET s1 == [st EXCEPT !.entries = deque_append(@, entry, FeedbackMaxLen)]
    IN check_for_parameter_adjustments(save_data(s1), t)

\* The adjustments that the loop of _check_for_parameter_adjustments hands to
\* _apply_parameter_adjustment, each with optimal_params as the call found it
\* and as the call left it.
RECURSIVE applied_adjustments(_, _)
applied_adjustments(st, adjustments) ==
    IF adjustments = <<>> THEN <<>>
    ELSE LET applied == apply_parameter_adjustment(st, Head(adjustments))
         IN <<[adjustment |-> Head(adjustments),
               before |-> st.params,
               after |-> applied.params]>>
            \o applied_adjustments(applied, Tail(adjustments))

\* The _apply_parameter_adjustment calls of one log_feedback call.
log_feedback_applied(st, entry, t) ==
    LET s1 == save_data([st EXCEPT !.entries =
                            deque_append(@, entry, FeedbackMaxLen)])
        a == adjustment_analysis(s1, t)
    IN applied_adjustments([s1 EXCEPT !.params = a.params], a.adjustments)

(***************************************************************************)
(* Callers of the FeedbackSystem singleton                                 *)
(*                                                                         *)
(* FeedbackSystem holds no lock, and get_feedback_system() hands the same  *)
(* object to every caller.  A call in progress is a record with its        *)
(* position pc and its local variables; a step is one statement of         *)
(* log_feedback, _check_for_parameter_adjustments or ask_question.         *)
(***************************************************************************)
MaxThreads == 2                \* calls in progress at the same time
MaxSpawned == 6                \* calls made in all

NewThread(op, pc, entry) ==
    [op |-> op, pc |-> pc, entry |-> entry, recent |-> <<>>, pending |-> <<>>,
     target |-> default_optimal_params, wrote |-> 0, snapshot |-> None,
     reached |-> FALSE, applied |-> None, response |-> None]

LogFeedbackCall(entry) == NewThread("log_feedback", "append", Some(entry))
AskQuestionCall == NewThread("ask_question", "read", None)

\* One statement of log_feedback(...) on the object st.
log_feedback_step(st, th, t) ==
    CASE th.pc = "append" ->
           [st |-> [st EXCEPT !.entries =
                       deque_append(@, th.entry[1], FeedbackMaxLen)],
            th |-> [th EXCEPT !.pc = "save"]]
      [] th.pc = "save" ->
           [st |-> save_data(st), th |-> [th EXCEPT !.pc = "recent"]]
      [] th.pc = "recent" ->
           LET recent == recent_feedback(st.entries, t) IN
           [st |-> st,
            th |-> [th EXCEPT !.recent = recent,
                              !.pc = IF Len(recent) < min_feedback_for_adjustment
                                     THEN "done" ELSE "cooldown"]]
      [] th.pc = "cooldown" ->
           [st |-> st,
            th |-> [th EXCEPT !.pc = IF is_in_cooldown_period(st.adjustments, t)
                                     THEN "done" ELSE "analyze"]]
      [] th.pc = "analyze" ->
           \* _analyze_feedback_patterns; _reinforce_parameters assigns
           \* retrieval_k here and rerank_threshold in the next statement
           LET a == analyze_feedback_patterns(th.recent, st.params, t) IN
           [st |-> [st EXCEPT !.params.retrieval_k = a.params.retrieval_k],
            th |-> [th EXCEPT !.target = a.params, !.pending = a.adjustments,
                              !.pc = IF a.params # st.params THEN "reinforce"
                                     ELSE IF a.adjustments = <<>> THEN "done"
                                     ELSE "apply"]]
      [] th.pc = "reinforce" ->
           [st |-> [st EXCEPT !.params.rerank_threshold = th.target.rerank_threshold],
            th |-> [th EXCEPT !.pc = IF th.pending = <<>> THEN "done" ELSE "apply"]]
      [] th.pc = "apply" ->
           [st |-> apply_parameter_adjustment(st, Head(th.pending)),
            th |-> [th EXCEPT !.pending = Tail(@), !.wrote = @ + 1,
                              !.pc = IF Tail(th.pending) = <<>> THEN "done"
                                     ELSE "apply"]]

\* The parameters of RAGRetriever.retrieve_context and the keyword arguments
\* of the call in ask_question.
retrieve_context_parameters ==
    { "question", "k", "filter_criteria", "auto_filter", "use_adaptive_retrieval" }

ask_keywords ==
    { "question", "filter_criteria", "auto_filter", "top_k", "rerank_threshold" }

\* A Python call with keyword arguments binds when each names a parameter;
\* else it raises TypeError before the body runs.
call_binds(parameters, keywords) == keywords \subseteq parameters

QuestionResponse(status, k, threshold) ==
    [status |-> status, retrieval_k |-> k, rerank_threshold |-> threshold]

\* One statement of ask_question(...): loaded is rag_retriever.load_vectorstore().
ask_question_step(st, th, loaded) ==
    CASE th.pc = "read" ->
           [th EXCEPT !.snapshot = Some(st.params), !.pc = "load"]
      [] th.pc = "load" ->
           IF ~loaded
           THEN [th EXCEPT !.response = Some(QuestionResponse(200, Some(0), Some(0))),
                           !.pc = "done"]
           ELSE [th EXCEPT !.reached = TRUE, !.pc = "retrieve"]
      [] th.pc = "retrieve" ->
           IF call_binds(retrieve_context_parameters, ask_keywords)
           THEN [th EXCEPT
                   !.applied = IF "k" \in ask_keywords
                               THEN Some(th.snapshot[1].retrieval_k) ELSE None,
                   !.response = Some(QuestionResponse(200,
                                    Some(th.snapshot[1].retrieval_k),
                                    Some(th.snapshot[1].rerank_threshold))),
                   !.pc = "done"]
           ELSE \* TypeError, caught at line 224: HTTPException 500
                [th EXCEPT !.response = Some(QuestionResponse(500, None, None)),
                           !.pc = "done"]

\* The calls of a list in turn, each to its end.
RECURSIVE log_feedback_in_turn(_, _, _)
log_feedback_in_turn(st, entries, t) ==
    IF entries = <<>> THEN st
    ELSE log_feedback_in_turn(log_feedback(st, Head(entries), t), Tail(entries), t)

(***************************************************************************)
(* FeedbackSystem: writes that fail                                        *)
(*                                                                         *)
(* _save_data opens and writes the three files in turn inside one try; an  *)
(* exception ends it there and is logged.  An outcome says how many files  *)
(* were written whole and whether the next one was left torn (opened for   *)
(* writing, so truncated, but not written whole) or was not opened at all. *)
(* The object carries, besides the fields above, torn: the files whose     *)
(* content is not the JSON of any write.                                   *)
(***************************************************************************)
FileNames == <<"feedback", "adjustments", "config">>

MaxCallsIO == 5

SaveOk == [written |-> Len(FileNames), torn |-> FALSE]
SaveOutcomes ==
    { SaveOk } \cup [written : 0..(Len(FileNames) - 1), torn : BOOLEAN]

\* _save_data() with the given outcome.
save_data_io(st, outcome) ==
    LET wrote(i) == i <= outcome.written
        tore(i) == outcome.torn /\ i = outcome.written + 1
    IN [st EXCEPT
          !.feedback_file = IF wrote(1) THEN Some(st.entries) ELSE @,
          !.adjustments_file = IF wrote(2) THEN Some(st.adjustments) ELSE @,
          !.config_file = IF wrote(3) THEN Some([optimal_params |-> st.params]) ELSE @,
          !.torn = (@ \ { FileNames[i] : i \in 1..outcome.written })
                     \cup { FileNames[i] : i \in { j \in 1..Len(FileNames) : tore(j) } }]

\* _apply_parameter_adjustment(adjustment), its save with the given outcome.
apply_parameter_adjustment_io(st, adj, outcome) ==
    LET s1 == [st EXCEPT !.adjustments = deque_append(@, adj, AdjustmentsMaxLen)]
        s2 == [s1 EXCEPT !.params =
                 IF adj.parameter_name = "retrieval_k"
                 THEN [@ EXCEPT !.retrieval_k = adj.new_value]
                 ELSE IF adj.parameter_name = "rerank_threshold"
                 THEN [@ EXCEPT !.rerank_threshold = adj.new_value]
                 ELSE @]
    IN save_data_io(s2, outcome)

RECURSIVE apply_all_io(_, _, _)
apply_all_io(st, adjustments, outcome) ==
    IF adjustments = <<>> THEN st
    ELSE apply_all_io(apply_parameter_adjustment_io(st, Head(adjustments), outcome),
                      Tail(adjustments), outcome)

\* A mutant of log_feedback_io: a failed save ends the call.
log_feedback_io_abort(st, entry, t, first, later) ==
    LET s1 == [st EXCEPT !.entries = deque_append(@, entry, FeedbackMaxLen)]
        s2 == save_data_io(s1, first)
        a == adjustment_analysis(s2, t)
    IN IF first # SaveOk THEN s2
       ELSE apply_all_io([s2 EXCEPT !.params = a.params], a.adjustments, later)

\* log_feedback(...): first is the outcome of its own save, later that of the
\* saves of the adjustments it applies.
log_feedback_io(st, entry, t, first, later) ==
    LET s1 == [st EXCEPT !.entries = deque_append(@, entry, FeedbackMaxLen)]
        s2 == save_data_io(s1, first)
        a == adjustment_analysis(s2, t)
    IN apply_all_io([s2 EXCEPT !.params = a.params], a.adjustments, later)

(***************************************************************************)
(* BM25Retriever (hybrid_retrieval.py)                                     *)
(*                                                                         *)
(* A text is the sequence of its \w+ words; document indices are those of  *)
(* the code (from 0).  Scores are in thousandths.  math.log is the table   *)
(* ln_milli, rounded to the nearest thousandth; a BM25 term is truncated   *)
(* toward zero, which keeps terms of opposite idf cancelling as they do in *)
(* the code's floats.                                                      *)
(***************************************************************************)
MaxDocs == 2                   \* documents in a corpus
MaxTopK == 2                   \* top_k of a search call

k1_halves == 3                 \* k1 = 1.5
b_quarters == 3                \* b = 0.75
dense_weight == 700
sparse_weight == 300
fallback_threshold == 100
dense_top_k == 20
sparse_top_k == 20

\* The texts a corpus is made of, and the queries asked.
DocTexts == { <<"a">>, <<"A", "b">>, <<"b", "b">>, <<>> }
Queries == { <<"a">>, <<"A", "b">>, <<"c">> }

\* The cosine similarities the embedding model may give a document.
Similarities == { 50, 500 }

\* Sequences of up to n elements of S.
SeqsUpTo(S, n) == UNION { [1..m -> S] : m \in 0..n }

\* The sequences that enumerate the finite set S, each element once.
Perms(S) ==
    { p \in [1..Cardinality(S) -> S] : \A i, j \in DOMAIN p : p[i] = p[j] => i = j }

\* 1000 * ln(num / den) for the odd num, den the idf formula meets.
ln_milli(num, den) ==
    LET r == <<num, den>> IN
    CASE r = <<1, 1>> -> 0 [] r = <<1, 3>> -> -1099 [] r = <<1, 5>> -> -1609 [] r = <<1, 7>> -> -1946 [] r = <<1, 9>> -> -2197 [] r = <<1, 11>> -> -2398
    [] r = <<3, 1>> -> 1099 [] r = <<3, 3>> -> 0 [] r = <<3, 5>> -> -511 [] r = <<3, 7>> -> -847 [] r = <<3, 9>> -> -1099 [] r = <<3, 11>> -> -1299
    [] r = <<5, 1>> -> 1609 [] r = <<5, 3>> -> 511 [] r = <<5, 5>> -> 0 [] r = <<5, 7>> -> -336 [] r = <<5, 9>> -> -588 [] r = <<5, 11>> -> -788
    [] r = <<7, 1>> -> 1946 [] r = <<7, 3>> -> 847 [] r = <<7, 5>> -> 336 [] r = <<7, 7>> -> 0 [] r = <<7, 9>> -> -251 [] r = <<7, 11>> -> -452
    [] r = <<9, 1>> -> 2197 [] r = <<9, 3>> -> 1099 [] r = <<9, 5>> -> 588 [] r = <<9, 7>> -> 251 [] r = <<9, 9>> -> 0 [] r = <<9, 11>> -> -201
    [] r = <<11, 1>> -> 2398 [] r = <<11, 3>> -> 1299 [] r = <<11, 5>> -> 788 [] r = <<11, 7>> -> 452 [] r = <<11, 9>> -> 201 [] r = <<11, 11>> -> 0

\* Division truncated toward zero.
TruncDiv(x, y) == IF x >= 0 THEN x \div y ELSE -((-x) \div y)

\* str.lower() on a word.
lower(w) == IF w = "A" THEN "a" ELSE w

\* BM25Retriever._tokenize(text)
tokenize(text) == [i \in 1..Len(text) |-> lower(text[i])]

\* collections.Counter(tokens)
Counter(tokens) ==
    [w \in Range(tokens) |-> Cardinality({i \in DOMAIN tokens : tokens[i] = w})]

\* A mutant of SortDescStable: equal keys come out in reverse order.
SortDescUnstable(s, keys) ==
    LET pos(i) == 1 + Cardinality({j \in DOMAIN s :
                        keys[j] > keys[i] \/ (keys[j] = keys[i] /\ j > i)})
    IN [p \in DOMAIN s |-> s[CHOOSE i \in DOMAIN s : pos(i) = p]]

\* list.sort(key=..., reverse=True): descending, equal keys in their
\* original order.  keys[i] is the key of s[i].
SortDescStable(s, keys) ==
    LET pos(i) == 1 + Cardinality({j \in DOMAIN s :
                        keys[j] > keys[i] \/ (keys[j] = keys[i] /\ j < i)})
    IN [p \in DOMAIN s |-> s[CHOOSE i \in DOMAIN s : pos(i) = p]]

new_bm25 ==
    [corpus |-> <<>>, doc_freqs |-> <<>>, idf |-> <<>>, doc_lengths |-> <<>>,
     avgdl |-> [num |-> 0, den |-> 1], is_fitted |-> FALSE]

\* BM25Retriever.fit(corpus): the fields of the fitted retriever.
bm25_fit(corpus) ==
    LET tokenized_corpus == [i \in DOMAIN corpus |-> tokenize(corpus[i])]
        num_docs == Len(corpus)
        doc_lengths == [i \in DOMAIN corpus |-> Len(tokenized_corpus[i])]
        terms == UNION { Range(tokenized_corpus[i]) : i \in DOMAIN corpus }
        df(term) == Cardinality({i \in DOMAIN corpus :
                                   term \in Range(tokenized_corpus[i])})
    IN [corpus |-> corpus,
        doc_freqs |-> [i \in DOMAIN corpus |-> Counter(tokenized_corpus[i])],
        idf |-> [term \in terms |->
                   ln_milli(2 * (num_docs - df(term)) + 1, 2 * df(term) + 1)],
        doc_lengths |-> doc_lengths,
        avgdl |-> IF num_docs = 0 THEN [num |-> 0, den |-> 1]
                  ELSE [num |-> SumSeq(doc_lengths), den |-> num_docs],
        is_fitted |-> TRUE]

\* The inner loop of BM25Retriever.search: the score of document i (from 1)
\* for the query tokens.
RECURSIVE bm25_score(_, _, _)
bm25_score(r, i, query_tokens) ==
    IF query_tokens = <<>> THEN 0
    ELSE
      LET token == Head(query_tokens)
          tf == r.doc_freqs[i][token]
          term ==
            IF token \notin DOMAIN r.doc_freqs[i] THEN 0
            ELSE TruncDiv(
                   (IF token \in DOMAIN r.idf THEN r.idf[token] ELSE 0)
                     * tf * (k1_halves + 2) * 4 * r.avgdl.num,
                   8 * tf * r.avgdl.num
                     + k1_halves * ((4 - b_quarters) * r.avgdl.num
                                    + b_quarters * r.doc_lengths[i] * r.avgdl.den))
      IN term + bm25_score(r, i, Tail(query_tokens))

\* BM25Retriever.search(query, top_k) on a fitted retriever.
bm25_search(r, query, top_k) ==
    LET query_tokens == tokenize(query)
        scores == [i \in DOMAIN r.doc_freqs |->
                     [idx |-> i - 1, score |-> bm25_score(r, i, query_tokens)]]
    IN Take(SortDescStable(scores, [i \in DOMAIN scores |-> scores[i].score]),
            top_k)

(***************************************************************************)
(* Callers of one BM25Retriever                                            *)
(*                                                                         *)
(* BM25Retriever holds no lock.  fit assigns the fields of the object one  *)
(* statement after the other; search reads them as it goes.  A step is one *)
(* statement of fit, or one round of the loop of search over doc_freqs.    *)
(* self.doc_freqs = [] makes a new list: a search that began its loop      *)
(* before goes on over the old list, one that begins after reads the new   *)
(* list as far as it is filled.                                            *)
(***************************************************************************)
MaxRacers == 2                 \* calls made on the fitted retriever

FitCall(corpus) ==
    [op |-> "fit", pc |-> "corpus", corpus |-> corpus, query |-> <<>>,
     top_k |-> 0, list |-> "none", doc_idx |-> 0, scores |-> <<>>,
     raised |-> FALSE]

SearchCall(query, top_k) ==
    [op |-> "search", pc |-> "check", corpus |-> <<>>, query |-> query,
     top_k |-> top_k, list |-> "none", doc_idx |-> 0, scores |-> <<>>,
     raised |-> FALSE]

\* One statement of fit(corpus) on the object r: fitted is what the whole
\* call computes.
bm25_fit_step(r, th) ==
    LET fitted == bm25_fit(th.corpus) IN
    CASE th.pc = "corpus" ->
           [r |-> [r EXCEPT !.corpus = th.corpus],
            th |-> [th EXCEPT !.pc = "doc_freqs"]]
      [] th.pc = "doc_freqs" ->
           [r |-> [r EXCEPT !.doc_freqs = <<>>],
            th |-> [th EXCEPT !.pc = IF th.corpus = <<>> THEN "doc_lengths"
                                     ELSE "append"]]
      [] th.pc = "append" ->
           [r |-> [r EXCEPT !.doc_freqs =
                      Append(@, fitted.doc_freqs[Len(r.doc_freqs) + 1])],
            th |-> [th EXCEPT !.pc = IF Len(r.doc_freqs) + 1 = Len(th.corpus)
                                     THEN "doc_lengths" ELSE "append"]]
      [] th.pc = "doc_lengths" ->
           [r |-> [r EXCEPT !.doc_lengths = fitted.doc_lengths],
            th |-> [th EXCEPT !.pc = "avgdl"]]
      [] th.pc = "avgdl" ->
           [r |-> [r EXCEPT !.avgdl = fitted.avgdl],
            th |-> [th EXCEPT !.pc = "idf"]]
      [] th.pc = "idf" ->
           [r |-> [r EXCEPT !.idf = <<>>],
            th |-> [th EXCEPT !.pc = "idf_terms"]]
      [] th.pc = "idf_terms" ->
           [r |-> [r EXCEPT !.idf = fitted.idf],
            th |-> [th EXCEPT !.pc = "is_fitted"]]
      [] th.pc = "is_fitted" ->
           [r |-> [r EXCEPT !.is_fitted = TRUE],
            th |-> [th EXCEPT !.pc = "done"]]

\* One step of search(query, top_k) on the object r; old_list is the list
\* doc_freqs was before the fit in progress replaced it, replaced says whether
\* it has.
bm25_search_step(r, th, old_list, replaced) ==
    LET doc_freqs == IF th.list = "old" THEN old_list ELSE r.doc_freqs
        i == th.doc_idx + 1
        query_tokens == tokenize(th.query)
        seen == [r EXCEPT !.doc_freqs = doc_freqs]
    IN
    CASE th.pc = "check" ->
           IF ~r.is_fitted THEN [th EXCEPT !.raised = TRUE, !.pc = "done"]
           ELSE [th EXCEPT !.pc = "loop",
                           !.list = IF replaced THEN "new" ELSE "old"]
      [] th.pc = "loop" ->
           IF i > Len(doc_freqs) THEN [th EXCEPT !.pc = "sort"]
           ELSE IF i > Len(r.doc_lengths)
           THEN \* IndexError at self.doc_lengths[doc_idx]
                [th EXCEPT !.raised = TRUE, !.pc = "done"]
           ELSE IF /\ r.avgdl.num = 0
                   /\ \E j \in DOMAIN query_tokens :
                        query_tokens[j] \in DOMAIN doc_freqs[i]
           THEN \* ZeroDivisionError at doc_length / self.avgdl
                [th EXCEPT !.raised = TRUE, !.pc = "done"]
           ELSE [th EXCEPT !.doc_idx = i,
                           !.scores = Append(@,
                               [idx |-> i - 1,
                                score |-> bm25_score(seen, i, query_tokens)])]
      [] th.pc = "sort" ->
           [th EXCEPT !.pc = "done",
                      !.scores = Take(SortDescStable(th.scores,
                                    [j \in DOMAIN th.scores |-> th.scores[j].score]),
                                      th.top_k)]

(***************************************************************************)
(* The application (main.py) and its sessions (auth.py, routers/auth.py)   *)
(*                                                                         *)
(* A client is one cookie jar.  A request is dispatched as FastAPI does:   *)
(* a path no route was registered for is answered 404; the dependencies of *)
(* the route run before its handler; request.session exists only under a   *)
(* SessionMiddleware.                                                      *)
(***************************************************************************)
MaxRequests == 3               \* requests kept in the log
Clients == {"c1", "c2"}
\* auth.py imports ADMIN_PASSWORD from config.py, which does not define it;
\* the value is the one setup_security.py gives.
ADMIN_PASSWORD == "admin123"
Usernames == {"admin", "guest"}
Passwords == {ADMIN_PASSWORD, "wrong"}
USERS == {"admin"}

EmptySession == [user |-> None, authenticated |-> FALSE]

\* app = FastAPI(...); app.add_middleware(CORSMiddleware, ...);
\* app.include_router(ask.router): no SessionMiddleware, no auth router.
session_middleware == FALSE

ProtectedEndpoints ==
    {"POST /upload", "GET /documents", "DELETE /documents/{id}", "POST /ask",
     "POST /auth/logout", "GET /auth/me"}

\* The routes registered on app, each with whether it depends on require_auth.
Routes ==
    [e \in {"POST /upload", "GET /documents", "DELETE /documents/{id}",
            "POST /ask"} |-> [requires_auth |-> e = "POST /ask"]]

authenticate_user(username, password) ==
    username \in USERS /\ password = ADMIN_PASSWORD

create_session(session, username) ==
    [session EXCEPT !.user = Some(username), !.authenticated = TRUE]

destroy_session(session) == EmptySession

is_authenticated(session) == session.authenticated /\ session.user # None

Response(status, detail) == [status |-> status, detail |-> detail]

\* What the handler of a registered route may answer once its dependencies
\* have passed.
handler_responses(endpoint) ==
    CASE endpoint = "GET /documents" -> {Response(200, "documents")}
      [] endpoint = "DELETE /documents/{id}" ->
           {Response(404, "Document not found"), Response(200, "success"),
            Response(500, "Error deleting document")}
      [] endpoint = "POST /upload" ->
           {Response(400, "Only PDF files are supported"),
            Response(200, "success"), Response(500, "Error processing PDF")}
      [] endpoint = "POST /ask" ->
           {Response(200, "answer"), Response(500, "Query processing failed")}
      [] endpoint = "POST /auth/logout" -> {Response(200, "Logout successful")}
      [] endpoint = "GET /auth/me" -> {Response(200, "user")}

\* The answers to a request on a route, with the session it leaves.
dispatch(session, endpoint) ==
    IF endpoint \notin DOMAIN Routes
    THEN {[response |-> Response(404, "Not Found"), session |-> session]}
    ELSE IF Routes[endpoint].requires_auth /\ ~session_middleware
    THEN \* request.session: SessionMiddleware must be installed
         {[response |-> Response(500, "Internal Server Error"),
           session |-> session]}
    ELSE IF Routes[endpoint].requires_auth /\ ~is_authenticated(session)
    THEN {[response |-> Response(401, "Authentication required"),
           session |-> session]}
    ELSE {[response |-> r,
           session |-> IF endpoint = "POST /auth/logout" /\ r.status = 200
                       THEN destroy_session(session) ELSE session] :
            r \in handler_responses(endpoint)}

\* POST /auth/login with these credentials.
login(session, username, password) ==
    IF "POST /auth/login" \notin DOMAIN Routes
    THEN [response |-> Response(404, "Not Found"), session |-> session]
    ELSE IF ~session_middleware
    THEN IF authenticate_user(username, password)
         THEN [response |-> Response(500, "Internal Server Error"),
               session |-> session]
         ELSE [response |-> Response(401, "Invalid username or password"),
               session |-> session]
    ELSE IF ~authenticate_user(username, password)
    THEN [response |-> Response(401, "Invalid username or password"),
          session |-> session]
    ELSE [response |-> Response(200, "Login successful"),
          session |-> create_session(session, username)]

(***************************************************************************)
(* HybridRetriever (hybrid_retrieval.py)                                   *)
(*                                                                         *)
(* dense_score and sparse_score are in thousandths, hybrid_score (a weight *)
(* times a score) in millionths.  chunk_id is the document index that      *)
(* str(idx) writes.  The embedding model is external: the similarity it    *)
(* gives each document is an input of the search.                          *)
(***************************************************************************)
MaxListLen == 2                \* length of a list handed to _combine_scores

\* The raw scores of the lists handed to _combine_scores.
RawScores == { 0, 250, 1000 }

RetrievalResult(h, idx, dense, sparse, hyb, method) ==
    [chunk_id |-> idx, content |-> h.documents[idx + 1], dense_score |-> dense,
     sparse_score |-> sparse, hybrid_score |-> hyb, retrieval_method |-> method]

new_hybrid ==
    [documents |-> <<>>, document_embeddings |-> None, is_fitted |-> FALSE]

\* HybridRetriever.fit(documents): the embeddings are one per document.
hybrid_fit(documents) ==
    [documents |-> documents,
     document_embeddings |-> Some(Len(documents)),
     is_fitted |-> TRUE]

\* HybridRetriever._dense_search(query, top_k); sims[i] is the cosine
\* similarity of document i (from 1) to the query.
dense_search(h, sims, top_k) ==
    IF h.document_embeddings = None THEN <<>>
    ELSE LET similarities == [i \in 1..h.document_embeddings[1] |->
                                [idx |-> i - 1, score |-> sims[i]]]
         IN Take(SortDescStable(similarities,
                    [i \in DOMAIN similarities |-> similarities[i].score]), top_k)

SeqMin(s) == CHOOSE x \in Range(s) : \A y \in Range(s) : x <= y
SeqMax(s) == CHOOSE x \in Range(s) : \A y \in Range(s) : x >= y

\* A mutant of normalize_scores: scores that are all the same normalize to 0.
normalize_scores_equal_to_zero(scores) ==
    IF scores = <<>> THEN scores
    ELSE
      LET score_values == [i \in DOMAIN scores |-> scores[i].score]
          min_score == SeqMin(score_values)
          max_score == SeqMax(score_values)
      IN IF max_score = min_score
         THEN [i \in DOMAIN scores |-> [idx |-> scores[i].idx, score |-> 0]]
         ELSE [i \in DOMAIN scores |->
                 [idx |-> scores[i].idx,
                  score |-> ((scores[i].score - min_score) * 1000)
                               \div (max_score - min_score)]]

\* HybridRetriever._normalize_scores(scores)
normalize_scores(scores) ==
    IF scores = <<>> THEN scores
    ELSE
      LET score_values == [i \in DOMAIN scores |-> scores[i].score]
          min_score == SeqMin(score_values)
          max_score == SeqMax(score_values)
      IN IF max_score = min_score
         THEN [i \in DOMAIN scores |-> [idx |-> scores[i].idx, score |-> 1000]]
         ELSE [i \in DOMAIN scores |->
                 [idx |-> scores[i].idx,
                  score |-> ((scores[i].score - min_score) * 1000)
                               \div (max_score - min_score)]]

\* {idx: score for idx, score in pairs}: the keys, and the value of a key
\* (that of its last pair).
dict_keys(pairs) == { pairs[i].idx : i \in DOMAIN pairs }
dict_get(pairs, idx, default) ==
    IF idx \notin dict_keys(pairs) THEN default
    ELSE LET last == CHOOSE i \in DOMAIN pairs :
                       /\ pairs[i].idx = idx
                       /\ \A j \in DOMAIN pairs : pairs[j].idx = idx => j <= i
         IN pairs[last].score

\* A mutant of combine_scores: an index found in one list only is still
\* tagged "hybrid".
combine_scores_all_hybrid(h, dense_results, sparse_results, order) ==
    LET dense_scores == normalize_scores(dense_results)
        sparse_scores == normalize_scores(sparse_results)
        all_indices == dict_keys(dense_scores) \cup dict_keys(sparse_scores)
        iterated == SelectSeq(order, LAMBDA idx : idx \in all_indices)
        results == [i \in DOMAIN iterated |->
            RetrievalResult(h, iterated[i],
                dict_get(dense_scores, iterated[i], 0),
                dict_get(sparse_scores, iterated[i], 0),
                dense_weight * dict_get(dense_scores, iterated[i], 0)
                  + sparse_weight * dict_get(sparse_scores, iterated[i], 0),
                "hybrid")]
    IN SortDescStable(results, [i \in DOMAIN results |-> results[i].hybrid_score])

\* HybridRetriever._combine_scores(dense_results, sparse_results).  The loop
\* runs over a set of indices, whose iteration order Python leaves to the
\* implementation: order lists the document indices in that order.
combine_scores(h, dense_results, sparse_results, order) ==
    LET dense_scores == normalize_scores(dense_results)
        sparse_scores == normalize_scores(sparse_results)
        all_indices == dict_keys(dense_scores) \cup dict_keys(sparse_scores)
        iterated == SelectSeq(order, LAMBDA idx : idx \in all_indices)
        results == [i \in DOMAIN iterated |->
            LET idx == iterated[i]
                dense_score == dict_get(dense_scores, idx, 0)
                sparse_score == dict_get(sparse_scores, idx, 0)
            IN RetrievalResult(h, idx, dense_score, sparse_score,
                   dense_weight * dense_score + sparse_weight * sparse_score,
                   IF idx \in dict_keys(dense_scores) /\ idx \in dict_keys(sparse_scores)
                   THEN "hybrid"
                   ELSE IF idx \in dict_keys(dense_scores) THEN "dense"
                   ELSE "sparse")]
    IN SortDescStable(results, [i \in DOMAIN results |-> results[i].hybrid_score])

\* A mutant of search_with_fallback: the fallback is taken only when the best
\* dense similarity is not positive.
search_with_fallback_nonpositive(h, r, query, top_k, sims, order) ==
    LET dense_results == dense_search(h, sims, dense_top_k)
        best_dense_score == IF dense_results = <<>> THEN 0 ELSE dense_results[1].score
    IN IF best_dense_score <= 0
       THEN LET sparse_results == bm25_search(r, query, top_k)
            IN Take([i \in DOMAIN sparse_results |->
                       RetrievalResult(h, sparse_results[i].idx, 0,
                           sparse_results[i].score, 1000 * sparse_results[i].score,
                           "sparse_fallback")], top_k)
       ELSE Take(combine_scores(h, dense_results,
                     bm25_search(r, query, sparse_top_k), order), top_k)

\* HybridRetriever.search_with_fallback(query, top_k) on a fitted retriever.
search_with_fallback(h, r, query, top_k, sims, order) ==
    LET dense_results == dense_search(h, sims, dense_top_k)
        best_dense_score == IF dense_results = <<>> THEN 0 ELSE dense_results[1].score
    IN IF best_dense_score < fallback_threshold
       THEN LET sparse_results == bm25_search(r, query, top_k)
            IN Take([i \in DOMAIN sparse_results |->
                       RetrievalResult(h, sparse_results[i].idx, 0,
                           sparse_results[i].score, 1000 * sparse_results[i].score,
                           "sparse_fallback")], top_k)
       ELSE Take(combine_scores(h, dense_results,
                     bm25_search(r, query, sparse_top_k), order), top_k)

(***************************************************************************)
(* RAGRetriever: the rerank pipeline of retrieve_context (rag.py)          *)
(*                                                                         *)
(* A document is named by its position in the candidate list.  The models  *)
(* are external: what the cross-encoder, the keyword overlap, DBSCAN and   *)
(* the embeddings give for the documents is an input of each stage, None   *)
(* where the call raised.                                                  *)
(***************************************************************************)
MaxCandidates == 4             \* candidate documents entering the pipeline
MaxK == 2                      \* k of a retrieve_context call

ModelScores == { 1, 2 }        \* cross-encoder and coherence scores
ClusterLabels == { -1, 0, 1 }  \* DBSCAN labels, -1 for noise

\* What a model returns for n documents, values from V; None when it raised.
ModelOutcomes(n, V) == { None } \cup { Some(f) : f \in [1..n -> V] }

\* The outcomes of a model call on n documents that a stage makes only when
\* called is true.
StageOutcomes(called, n, V) == IF called THEN ModelOutcomes(n, V) ELSE { None }

\* [x for i, x in enumerate(s) if i in I]
AtIndices(s, I) ==
    [p \in 1..Cardinality(I) |->
        s[CHOOSE i \in I : Cardinality({j \in I : j < i}) = p - 1]]

\* A mutant of rerank_with_cross_encoder: nothing is returned when the
\* cross-encoder is missing or raises.
rerank_with_cross_encoder_or_nothing(self, docs, k, predicted) ==
    IF ~self.cross_encoder \/ docs = <<>> THEN <<>>
    ELSE IF predicted = None THEN <<>>
    ELSE Take(SortDescStable(docs, predicted[1]), k)

\* A mutant of rerank_with_cross_encoder: the sorted documents are not cut.
rerank_with_cross_encoder_uncut(self, docs, k, predicted) ==
    IF ~self.cross_encoder \/ docs = <<>> THEN Take(docs, k)
    ELSE IF predicted = None THEN Take(docs, k)
    ELSE SortDescStable(docs, predicted[1])

\* RAGRetriever._rerank_with_cross_encoder(question, docs, k)
rerank_with_cross_encoder(self, docs, k, predicted) ==
    IF ~self.cross_encoder \/ docs = <<>> THEN Take(docs, k)
    ELSE IF predicted = None THEN Take(docs, k)
    ELSE Take(SortDescStable(docs, predicted[1]), k)

\* RAGRetriever._cluster_documents_post_rerank(docs, k)
cluster_documents_post_rerank(self, docs, k, clustered) ==
    IF Len(docs) <= k THEN docs
    ELSE IF ~self.embedding_model THEN Take(docs, k)
    ELSE IF clustered = None THEN Take(docs, k)
    ELSE
      LET cluster_labels == clustered[1]
          unique_labels == { cluster_labels[i] : i \in DOMAIN docs } \ { -1 }
          count(l) == Cardinality({i \in DOMAIN docs : cluster_labels[i] = l})
      IN IF unique_labels # {}
         THEN LET largest_cluster_label ==
                    CHOOSE l \in unique_labels : \A m \in unique_labels :
                        count(m) < count(l) \/ (count(m) = count(l) /\ l <= m)
              IN Take(AtIndices(docs, {i \in DOMAIN docs :
                                        cluster_labels[i] = largest_cluster_label}), k)
         ELSE Take(docs, k)

\* A mutant of filter_by_keyword_overlap: what the filter leaves is returned
\* even when it leaves nothing.
filter_by_keyword_overlap_strict(docs, overlapping) ==
    IF overlapping = None THEN docs
    ELSE SelectSeq(docs, LAMBDA d : d \in overlapping[1])

\* RAGRetriever._filter_by_keyword_overlap(question, docs, min_overlap):
\* overlapping holds the documents whose overlap ratio reaches min_overlap;
\* it is None when the query has no keywords or the filter raised.
filter_by_keyword_overlap(docs, overlapping) ==
    IF overlapping = None THEN docs
    ELSE LET filtered_docs == SelectSeq(docs, LAMBDA d : d \in overlapping[1])
         IN IF filtered_docs # <<>> THEN filtered_docs ELSE docs

\* A mutant of score_context_coherence: without an embedding model the
\* documents come back uncut.
score_context_coherence_uncut(self, docs, k, coherence) ==
    IF Len(docs) <= k THEN docs
    ELSE IF ~self.embedding_model THEN docs
    ELSE IF coherence = None THEN Take(docs, k)
    ELSE Take(SortDescStable(docs, coherence[1]), k)

\* RAGRetriever._score_context_coherence(docs, k)
score_context_coherence(self, docs, k, coherence) ==
    IF Len(docs) <= k THEN docs
    ELSE IF ~self.embedding_model THEN Take(docs, k)
    ELSE IF coherence = None THEN Take(docs, k)
    ELSE Take(SortDescStable(docs, coherence[1]), k)

\* RAGRetriever._filter_documents_by_metadata(docs, filter_criteria): matching
\* holds the documents whose metadata meet the criteria.
filter_documents_by_metadata(docs, matching) ==
    SelectSeq(docs, LAMBDA d : d \in matching)

\* A metadata or criterion value: a string, an integer (kept by its decimal
\* numeral), or a list of strings and integers.
Numeral(n) == CASE n = 3 -> "3" [] n = 5 -> "5"
PyStr(v) == [t |-> "str", v |-> v, items |-> <<>>]
PyInt(n) == [t |-> "int", v |-> Numeral(n), items |-> <<>>]
PyList(items) == [t |-> "list", v |-> "", items |-> items]

\* str(value) of a string or an integer.
py_str(value) == value.v

\* The loop of _filter_documents_by_metadata over filter_criteria.items(),
\* from item i on, for one document: "match", "no match", or "raised" where
\* v.lower() meets a list element that is no string.
RECURSIVE metadata_match(_, _, _)
metadata_match(metadata, items, i) ==
    IF i > Len(items) THEN "match"
    ELSE
      LET key == items[i].key
          value == items[i].value
      IN IF value.t = "str" /\ key \in DOMAIN metadata
         THEN IF lower(value.v) # lower(py_str(metadata[key]))
              THEN "no match"
              ELSE metadata_match(metadata, items, i + 1)
         ELSE IF value.t = "list" /\ key \in DOMAIN metadata
         THEN IF \E j \in DOMAIN value.items : value.items[j].t # "str"
              THEN "raised"
              ELSE IF lower(py_str(metadata[key]))
                        \notin { lower(value.items[j].v) : j \in DOMAIN value.items }
              THEN "no match"
              ELSE metadata_match(metadata, items, i + 1)
         ELSE IF key \notin DOMAIN metadata
         THEN "no match"
         ELSE metadata_match(metadata, items, i + 1)

\* RAGRetriever._filter_documents_by_metadata(docs, filter_criteria) on
\* documents given by their metadata: None when it raised.
filter_documents_by_criteria(docs, items) ==
    IF items = <<>> THEN Some(docs)
    ELSE IF \E i \in DOMAIN docs :
              /\ metadata_match(docs[i], items, 1) = "raised"
         THEN None
         ELSE Some(filter_documents_by_metadata(docs,
                  { d \in Range(docs) : metadata_match(d, items, 1) = "match" }))

\* vectorstore.as_retriever(search_kwargs={"k": k}).get_relevant_documents:
\* the k nearest of the n chunks of the store, which are 1..n by distance.
get_relevant_documents(n, k) == [i \in 1..Min2(n, k) |-> i]

retrieval_candidates == 20     \* RETRIEVAL_CANDIDATES

\* What retrieve_context returns and what it went through.
Retrieved(docs, candidates, entered, lost, out) ==
    [retrieved |-> docs, candidate_docs |-> candidates, reranking |-> entered,
     degraded |-> lost, relevant_docs |-> out]

\* The stages of retrieve_context from the rerank on, for every outcome of the
\* model calls they make: degraded says that a stage went without its model.
rerank_pipeline(self, retrieved, candidate_docs, k) ==
    LET n == Len(candidate_docs)
        reranking == self.cross_encoder /\ n > k
    IN UNION {
       LET reranked ==
             IF reranking
             THEN rerank_with_cross_encoder(self, candidate_docs, Min2(k * 2, n),
                                            predicted)
             ELSE Take(candidate_docs, Min2(k * 2, n))
       IN UNION {
          LET kept == filter_by_keyword_overlap(reranked, overlapping)
              clustering == Len(kept) > k /\ Len(kept) > k * 2 /\ self.embedding_model
          IN UNION {
             LET grouped ==
                   IF Len(kept) > k
                   THEN cluster_documents_post_rerank(self, kept, k * 2, clustered)
                   ELSE kept
                 scoring == Len(grouped) > k /\ self.embedding_model
             IN { Retrieved(retrieved, candidate_docs, TRUE,
                            \/ ~self.cross_encoder
                            \/ ~self.embedding_model
                            \/ reranking /\ predicted = None
                            \/ clustering /\ clustered = None
                            \/ scoring /\ coherence = None,
                            score_context_coherence(self, grouped, k, coherence))
                    @@ [predicted |-> predicted, reranked |-> reranked,
                        kept |-> kept, grouped |-> grouped] :
                  coherence \in StageOutcomes(scoring, Len(grouped), ModelScores) } :
             clustered \in StageOutcomes(clustering, Len(kept), ClusterLabels) } :
          overlapping \in { None, Some({}), Some({ reranked[i] : i \in 1..(Len(reranked) - 1) }) } } :
       predicted \in StageOutcomes(reranking, n, ModelScores) }

\* The parameters of HybridRetriever.__init__, those without a default, and
\* the keyword arguments of the call in _initialize_hybrid_retriever.
HybridRetriever_parameters ==
    { "embedding_model", "dense_weight", "sparse_weight", "fallback_threshold" }

HybridRetriever_required == { "embedding_model" }

hybrid_keywords == { "dense_weight", "sparse_weight", "fallback_threshold" }

\* RAGRetriever._initialize_hybrid_retriever(docs): whether self.hybrid_retriever
\* is a fitted retriever after it; fitted says that fit returned.  A call that
\* leaves a parameter without a default unbound raises TypeError, and the
\* except branch sets None.
initialize_hybrid_retriever(fitted) ==
    /\ hybrid_keywords \subseteq HybridRetriever_parameters
    /\ HybridRetriever_required \subseteq hybrid_keywords
    /\ fitted

\* RAGRetriever.retrieve_context(question, k, filter_criteria), on a loaded
\* vectorstore of n chunks, for every outcome of the calls it makes.
\* criteria is None without filter criteria, given or detected, else the
\* chunks that meet them; searched and searched_more say whether the two
\* similarity searches returned (an exception ends in the except branch, which
\* returns the empty list).  hybrid_docs is None when there is no hybrid
\* retriever, no candidate or no hybrid result, else the candidates that
\* search_with_fallback names, in its order.
retrieve_context(self, n, k, criteria, searched, searched_more, hybrid_docs) ==
    LET candidates_k == IF self.cross_encoder THEN retrieval_candidates ELSE k
        retrieved_dense == get_relevant_documents(n, candidates_k)
        retrieved == IF hybrid_docs = None THEN retrieved_dense ELSE hybrid_docs[1]
        filtered == IF criteria = None THEN retrieved
                    ELSE filter_documents_by_metadata(retrieved, criteria[1])
        expanding == criteria # None /\ Len(filtered) < k /\ Len(filtered) > 0
        filtered_more ==
            IF expanding
            THEN filter_documents_by_metadata(
                     get_relevant_documents(n, candidates_k * 3), criteria[1])
            ELSE <<>>
        candidate_docs ==
            IF expanding /\ Len(filtered_more) > Len(filtered)
            THEN filtered_more ELSE filtered
        trace == [fused |-> searched /\ hybrid_docs # None,
                  filtering |-> searched /\ criteria # None,
                  filtered |-> IF searched THEN filtered ELSE <<>>,
                  requeried |-> searched /\ expanding,
                  filtered_more |-> IF searched /\ searched_more
                                    THEN filtered_more ELSE <<>>,
                  predicted |-> None, reranked |-> <<>>, kept |-> <<>>,
                  grouped |-> <<>>,
                  widened |-> searched /\ expanding /\ searched_more
                              /\ Len(filtered_more) > Len(filtered)]
    IN { r @@ trace :
         r \in IF ~searched THEN { Retrieved(<<>>, <<>>, FALSE, FALSE, <<>>) }
               ELSE IF expanding /\ ~searched_more
               THEN { Retrieved(retrieved, filtered, FALSE, FALSE, <<>>) }
               ELSE rerank_pipeline(self, retrieved, candidate_docs, k) }

(***************************************************************************)
(* QueryAnalyzer (query_analyzer.py)                                       *)
(*                                                                         *)
(* A query is given by what the analyzer reads of it: the number of        *)
(* patterns of each list that match it, and its length in words.           *)
(* Confidences are in thousandths.                                         *)
(***************************************************************************)
MaxMatches == 2                \* patterns of one list matching a query

simple_max_length == 10
complex_min_score == 2
complex_length == 25
optimal_k_min == 2
optimal_k_max == 15

QueryTypes == { "entity", "summary", "reasoning", "definition", "factual" }
Complexities == { "simple", "medium", "complex" }
QueryLengths == { 5, 10, 11, 25, 26 }

\* QueryAnalyzer._detect_query_type(query)
detect_query_type(query) ==
    IF query.definition_score > 0
    THEN <<"definition", Min2(query.definition_score * 500, 1000)>>
    ELSE IF query.summary_score > 0
    THEN <<"summary", Min2(query.summary_score * 500, 1000)>>
    ELSE IF query.reasoning_score > 0
    THEN <<"reasoning", Min2(query.reasoning_score * 500, 1000)>>
    ELSE IF query.entity_score > 0
    THEN <<"entity", Min2(query.entity_score * 500, 1000)>>
    ELSE <<"factual", 500>>

\* QueryAnalyzer._detect_query_complexity(query)
detect_query_complexity(query) ==
    IF query.simple_score > 0 /\ query.query_length <= simple_max_length
    THEN <<"simple", 800>>
    ELSE IF query.complex_score >= complex_min_score
            \/ query.query_length > complex_length
    THEN <<"complex", 800>>
    ELSE <<"medium", 600>>

base_k(query_type) ==
    CASE query_type = "entity" -> 3
      [] query_type = "factual" -> 3
      [] query_type = "definition" -> 2
      [] query_type = "summary" -> 6
      [] query_type = "reasoning" -> 7

\* A mutant of complexity_multiplier: a simple query multiplies by 0.7.
complexity_multiplier_simple_07(complexity) ==
    CASE complexity = "simple" -> 7
      [] complexity = "medium" -> 10
      [] complexity = "complex" -> 15

\* complexity_multiplier, in tenths
complexity_multiplier(complexity) ==
    CASE complexity = "simple" -> 8
      [] complexity = "medium" -> 10
      [] complexity = "complex" -> 15

\* A mutant of determine_optimal_k: the product is not brought into range.
determine_optimal_k_unclamped(query_type, complexity) ==
    (base_k(query_type) * complexity_multiplier(complexity)) \div 10

\* QueryAnalyzer._determine_optimal_k(query_type, complexity); int() cuts the
\* fraction of the product.
determine_optimal_k(query_type, complexity) ==
    LET optimal_k == (base_k(query_type) * complexity_multiplier(complexity)) \div 10
    IN Max2(optimal_k_min, Min2(optimal_k, optimal_k_max))

\* QueryAnalyzer._determine_chunk_parameters(query_type, complexity)
determine_chunk_parameters(query_type, complexity) ==
    LET base == IF query_type \in {"entity", "factual", "definition"}
                THEN <<600, 200>>
                ELSE IF query_type = "summary" THEN <<900, 350>>
                ELSE <<1200, 400>>
    IN IF complexity = "simple"
       THEN <<(base[1] * 8) \div 10, (base[2] * 8) \div 10>>
       ELSE IF complexity = "complex"
       THEN <<(base[1] * 12) \div 10, (base[2] * 12) \div 10>>
       ELSE base

\* QueryAnalyzer.analyze_query(query), less the entities and keywords that
\* spaCy extracts.
analyze_query(query) ==
    LET typed == detect_query_type(query)
        graded == detect_query_complexity(query)
        chunks == determine_chunk_parameters(typed[1], graded[1])
    IN [query_type |-> typed[1],
        complexity |-> graded[1],
        optimal_k |-> determine_optimal_k(typed[1], graded[1]),
        chunk_size |-> chunks[1],
        chunk_overlap |-> chunks[2],
        confidence |-> (typed[2] + graded[2]) \div 2]

(***************************************************************************)
(* The state of each component after construction                          *)
(***************************************************************************)
\* The process starts recent_window_hours after the entry a previous run may
\* have left in the feedback file was written, and is followed for one
\* cooldown period.
StartTime == recent_window_hours
LastHour == StartTime + adjustment_cooldown_hours

NoSearch ==
    [op |-> "none", query |-> <<>>, top_k |-> 0, dense |-> <<>>, sparse |-> <<>>,
     raised |-> FALSE, results |-> <<>>]

\* No file is torn and no call has written.
SoundDisk == [torn |-> {}, last |-> "none", stale |-> FALSE]

FeedbackIdle ==
    /\ now = StartTime
    /\ feedback_entries = <<>>
    /\ recent_adjustments = <<>>
    /\ optimal_params = default_optimal_params
    /\ feedback_file = None
    /\ adjustments_file = None
    /\ config_file = None
    /\ fb_last = [op |-> "init", cooldown |-> FALSE, applied |-> <<>>]
    /\ disk = SoundDisk

SearchIdle ==
    /\ bm25 = new_bm25
    /\ hybrid = new_hybrid
    /\ search_out = NoSearch

NoCall == [op |-> "none"]

\* RAGRetriever.__init__: the two models are what config.py could load.
RagIdle ==
    /\ rag \in [cross_encoder : BOOLEAN, embedding_model : BOOLEAN, call : {NoCall}]

\* RAGRetriever.__init__: no vectorstore yet.
NoVectorstore ==
    retrieval = [vectorstore |-> FALSE, built |-> FALSE,
                 hybrid_retriever |-> FALSE, call |-> NoCall]

RagUnused ==
    /\ rag = [cross_encoder |-> TRUE, embedding_model |-> TRUE, call |-> NoCall]
    /\ NoVectorstore

\* QueryAnalyzer.__init__
AnalyzerIdle == analysis = NoCall

(***************************************************************************)
(* PerformanceMonitor (performance_monitor.py)                             *)
(*                                                                         *)
(* Times are in seconds, scores in thousandths.  A QueryMetrics keeps the  *)
(* fields the alerts and the health snapshot read; a PerformanceAlert its  *)
(* alert_id, alert_type and resolved; a SystemHealthMetrics its counts and *)
(* the two psutil readings.                                                *)
(***************************************************************************)
max_metrics_memory == 1000
max_health_memory == 100
max_processing_time == 30
min_quality_score == 2500
min_confidence_score == 300
max_error_rate == 100
max_memory_usage == 2048
max_cpu_usage == 80
health_window == 50            \* list(self.query_metrics)[-50:]
error_rate_window == 10        \* list(self.health_metrics)[-10:]
save_period == 10              \* len(self.query_metrics) % 10 == 0

MaxLoops == 2                  \* monitoring threads started in all
MaxSnapshots == 2              \* health snapshots taken in all
MaxMetrics == 1                \* queries recorded in all

\* _create_alert(alert_type, ...) at time.time() = t
create_alert(alerts, alert_type, t) ==
    LET similar_exists ==
            \E i \in 1..Len(alerts) :
                alerts[i].alert_type = alert_type /\ ~alerts[i].resolved
    IN IF similar_exists THEN alerts
       ELSE Append(alerts, [alert_id |-> <<alert_type, t>>,
                            alert_type |-> alert_type,
                            resolved |-> FALSE])

\* _check_query_alerts(metrics)
check_query_alerts(alerts, metrics, t) ==
    LET a1 == IF metrics.processing_time > max_processing_time
              THEN create_alert(alerts, "slow_query", t) ELSE alerts
        a2 == IF metrics.answer_quality_score < min_quality_score
              THEN create_alert(a1, "low_quality", t) ELSE a1
    IN IF metrics.confidence_score < min_confidence_score
       THEN create_alert(a2, "low_confidence", t) ELSE a2

\* _save_metrics()
save_metrics(self) ==
    [self EXCEPT !.files = [metrics_file |-> self.query_metrics,
                            health_file |-> self.health_metrics,
                            alerts_file |-> self.active_alerts]]

\* record_query_metrics(metrics), less the pattern counters and the
\* query_times and quality_scores windows, which nothing else touches.
record_query_metrics(self, metrics, t) ==
    LET s1 == [self EXCEPT
                 !.query_metrics = deque_append(@, metrics, max_metrics_memory),
                 !.active_alerts = check_query_alerts(@, metrics, t)]
    IN IF Len(s1.query_metrics) % save_period = 0 THEN save_metrics(s1) ELSE s1

\* _collect_system_health() with the psutil readings memory and cpu
collect_system_health(self, memory, cpu) ==
    LET recent_metrics == LastN(self.query_metrics, health_window)
        failed == Len(SelectSeq(recent_metrics, LAMBDA m : m.error_occurred))
    IN [successful_queries |-> Len(recent_metrics) - failed,
        failed_queries |-> failed,
        memory_usage_mb |-> memory,
        cpu_usage_percent |-> cpu,
        active_sessions |-> Cardinality(self.current_sessions)]

\* _check_performance_alerts()
check_performance_alerts(self, t) ==
    IF self.health_metrics = <<>> THEN self.active_alerts
    ELSE
      LET latest_health == self.health_metrics[Len(self.health_metrics)]
          a1 == IF latest_health.memory_usage_mb > max_memory_usage
                THEN create_alert(self.active_alerts, "high_memory", t)
                ELSE self.active_alerts
          a2 == IF latest_health.cpu_usage_percent > max_cpu_usage
                THEN create_alert(a1, "high_cpu", t) ELSE a1
          recent_health == LastN(self.health_metrics, error_rate_window)
          total_failures ==
              SumSeq([i \in 1..Len(recent_health) |->
                          recent_health[i].failed_queries])
          total_queries ==
              total_failures
              + SumSeq([i \in 1..Len(recent_health) |->
                            recent_health[i].successful_queries])
      IN IF /\ Len(self.health_metrics) >= error_rate_window
            /\ total_queries > 0
            /\ total_failures * 1000 > max_error_rate * total_queries
         THEN create_alert(a2, "high_error_rate", t)
         ELSE a2

\* resolve_alert(alert_id): the first alert of that id.
resolve_alert(alerts, alert_id) ==
    LET hits == {i \in 1..Len(alerts) : alerts[i].alert_id = alert_id}
    IN IF hits = {} THEN alerts
       ELSE LET first == CHOOSE i \in hits : \A j \in hits : i <= j
            IN [alerts EXCEPT ![first].resolved = TRUE]

\* A thread running _monitoring_loop, about to test its while condition.
\* stopped: a stop_monitoring call was made while it ran; resumed: its while
\* test passed after that.
NewLoop == [pc |-> "while", stopped |-> FALSE, resumed |-> FALSE]

\* start_monitoring()
start_monitoring(self) ==
    IF ~self.monitoring_active
    THEN [self EXCEPT !.monitoring_active = TRUE,
                      !.loops = Append(@, NewLoop),
                      !.monitor_thread = Len(self.loops) + 1]
    ELSE self

\* stop_monitoring() up to its join; monitor_thread 0 is None.
stop_monitoring(self) ==
    [self EXCEPT
       !.monitoring_active = FALSE,
       !.loops = [i \in DOMAIN self.loops |->
                    IF self.loops[i].pc = "done" THEN self.loops[i]
                    ELSE [self.loops[i] EXCEPT !.stopped = TRUE]],
       !.caller = IF self.monitor_thread # 0 THEN "joining" ELSE "idle"]

\* PerformanceMonitor.__init__ with no files to load
PerformanceMonitor ==
    [created |-> TRUE, monitoring_active |-> FALSE, monitor_thread |-> 0,
     loops |-> <<>>, caller |-> "idle",
     query_metrics |-> <<>>, health_metrics |-> <<>>, active_alerts |-> <<>>,
     current_sessions |-> {},
     files |-> [metrics_file |-> <<>>, health_file |-> <<>>,
                alerts_file |-> <<>>],
     last |-> "init"]

\* _performance_monitor = None
NoMonitor == monitor = [PerformanceMonitor EXCEPT !.created = FALSE]

\* No call in progress, no session.
NoThreads ==
    threads = [running |-> <<>>, spawned |-> 0,
               base |-> [entries |-> <<>>, adjustments |-> <<>>,
                         params |-> default_optimal_params]]
NoRace ==
    racing = [running |-> <<>>, spawned |-> 0, old |-> new_bm25,
              replaced |-> FALSE]
NoSessions == sessions = [cookie |-> <<>>, log |-> <<>>]
CallersIdle == NoThreads /\ NoRace /\ NoSessions /\ NoMonitor

(***************************************************************************)
(* FeedbackSystem: the state machine                                       *)
(***************************************************************************)
self_fb ==
    [entries |-> feedback_entries, adjustments |-> recent_adjustments,
     params |-> optimal_params, feedback_file |-> feedback_file,
     adjustments_file |-> adjustments_file, config_file |-> config_file]

OldFeedbackFiles ==
    { None, Some(<<FeedbackEntry(5, 700, "hybrid", "negative", None, 0)>>) }

InitFeedback ==
    /\ now = StartTime
    /\ \E ffile \in OldFeedbackFiles :
         \E st \in {load_existing_data(ffile, None, None)} :
            /\ feedback_entries = st.entries
            /\ recent_adjustments = st.adjustments
            /\ optimal_params = st.params
            /\ feedback_file = st.feedback_file
            /\ adjustments_file = st.adjustments_file
            /\ config_file = st.config_file
    /\ fb_last = [op |-> "init", cooldown |-> FALSE, applied |-> <<>>]
    /\ disk = SoundDisk
    /\ SearchIdle
    /\ RagUnused
    /\ AnalyzerIdle
    /\ CallersIdle

\* POST /feedback/submit -> FeedbackSystem.log_feedback
LogFeedback ==
    \E entry \in Submissions(now) :
      \E st \in {log_feedback(self_fb, entry, now)} :
           /\ feedback_entries' = st.entries
           /\ recent_adjustments' = st.adjustments
           /\ optimal_params' = st.params
           /\ feedback_file' = st.feedback_file
           /\ adjustments_file' = st.adjustments_file
           /\ config_file' = st.config_file
           /\ fb_last' =
                [op |-> "log",
                 cooldown |-> is_in_cooldown_period(recent_adjustments, now),
                 applied |-> log_feedback_applied(self_fb, entry, now)]
           /\ now' = now
           /\ UNCHANGED <<disk, exceptFeedback>>

\* An hour passes.  Time is followed from the first adjustment on: until
\* then every entry is within the 24 hours and only their order matters.
Tick ==
    /\ now < LastHour
    /\ recent_adjustments # <<>>
    /\ now' = now + 1
    /\ fb_last' = [op |-> "tick", cooldown |-> FALSE, applied |-> <<>>]
    /\ UNCHANGED <<feedback_entries, recent_adjustments, optimal_params,
                   feedback_file, adjustments_file, config_file, disk,
                   exceptFeedback>>

NextFeedback == LogFeedback \/ Tick

SpecFeedback == InitFeedback /\ [][NextFeedback]_vars

(***************************************************************************)
(* FeedbackSystem: properties                                              *)
(***************************************************************************)
\* The entries of the buffer written within the last 24 hours, after a call.
RecentNow == SelectSeq(feedback_entries, LAMBDA e : e.timestamp > now - 24)

\* The parameter_name of each logged adjustment, oldest first.
AdjustmentNames(adjustments) ==
    [i \in 1..Len(adjustments) |-> adjustments[i].parameter_name]

\* C1: in every reachable state optimal_params['retrieval_k'] is within
\* k_adjustment_range (3..15) and optimal_params['rerank_threshold'] within
\* rerank_threshold_range (0.1..0.9).
C1_ParamsWithinRange ==
    /\ optimal_params.retrieval_k >= 3
    /\ optimal_params.retrieval_k <= 15
    /\ optimal_params.rerank_threshold >= 100
    /\ optimal_params.rerank_threshold <= 900

\* C2: while fewer than adjustment_cooldown_hours (2) have passed since the
\* last recorded adjustment, no step records an adjustment or changes
\* optimal_params.
C2_CooldownBlocksAdjustments ==
    [][ (/\ recent_adjustments # <<>>
         /\ now < recent_adjustments[Len(recent_adjustments)].timestamp + 2)
        => (/\ recent_adjustments' = recent_adjustments
            /\ optimal_params' = optimal_params) ]_vars

\* C2 witness: a submission made an hour after an adjustment, during the
\* cooldown, whose recent window holds a group the analysis would act on.
C2_Witness ==
    /\ fb_last.op = "log"
    /\ fb_last.cooldown
    /\ now > recent_adjustments[Len(recent_adjustments)].timestamp
    /\ analyze_feedback_patterns(RecentNow, optimal_params, now).adjustments # <<>>

\* C3: a log_feedback call after which fewer than min_feedback_for_adjustment
\* (5) entries are within the last 24 hours leaves optimal_params and the
\* adjustment log as they were.
C3_TooFewRecentNoChange ==
    [][ (/\ fb_last'.op = "log"
         /\ Len(SelectSeq(feedback_entries',
                          LAMBDA e : e.timestamp > now' - 24)) < 5)
        => (/\ recent_adjustments' = recent_adjustments
            /\ optimal_params' = optimal_params) ]_vars

\* C3 witness: after a submission the buffer holds five entries, one of them a
\* day old, all of one badly rated parameter combination.
C3_Witness ==
    /\ fb_last.op = "log"
    /\ Len(feedback_entries) >= 5
    /\ Len(RecentNow) < 5
    /\ Len(RecentNow) >= 3
    /\ \A i \in 1..Len(feedback_entries) : feedback_entries[i].rating = "negative"

\* The case of C4: the adjustment log is empty, and the call brings the recent
\* window to at least 5 entries whose combined_score is below 0.4.
C4_Case ==
    /\ recent_adjustments = <<>>
    /\ fb_last'.op = "log"
    /\ LET recent == SelectSeq(feedback_entries',
                               LAMBDA e : e.timestamp > now' - 24)
       IN /\ Len(recent) >= 5
          /\ is_poor(recent)

\* C4 as claimed: in that case exactly one ParameterAdjustment is recorded.
C4_ExactlyOneAdjustment ==
    [][ C4_Case => Len(recent_adjustments') = 1 ]_vars

\* C4 as amended: in that case, when the entries of the window all share one
\* parameter-combination key, the call records one retrieval_k adjustment,
\* followed by one rerank_threshold adjustment exactly when the entries'
\* rerank_threshold is above 0.5.
C4_AdjustmentsPerPoorKey ==
    [][ (/\ C4_Case
         /\ \A i, j \in 1..Len(feedback_entries') :
               /\ feedback_entries'[i].retrieval_k = feedback_entries'[j].retrieval_k
               /\ feedback_entries'[i].rerank_threshold
                    = feedback_entries'[j].rerank_threshold
               /\ feedback_entries'[i].retrieval_method
                    = feedback_entries'[j].retrieval_method
               /\ feedback_entries'[i].timestamp > now' - 24)
        => AdjustmentNames(recent_adjustments') =
             IF feedback_entries'[1].rerank_threshold > 500
             THEN <<"retrieval_k", "rerank_threshold">>
             ELSE <<"retrieval_k">> ]_vars

\* C4 witness: a call outside any cooldown recorded the single retrieval_k
\* adjustment of a window of five badly rated entries with threshold 0.3.
C4_Witness ==
    /\ fb_last.op = "log"
    /\ ~fb_last.cooldown
    /\ Len(RecentNow) >= 5
    /\ is_poor(RecentNow)
    /\ \A i \in 1..Len(feedback_entries) : feedback_entries[i].rerank_threshold = 300
    /\ AdjustmentNames(recent_adjustments) = <<"retrieval_k">>
    /\ recent_adjustments[1].timestamp = now

\* C10: a FeedbackSystem constructed from the three files has the
\* feedback_entries, recent_adjustments and optimal_params the running
\* instance has in memory.
C10_ReloadEqualsMemory ==
    LET loaded == load_existing_data(feedback_file, adjustments_file, config_file)
    IN /\ loaded.entries = feedback_entries
       /\ loaded.adjustments = recent_adjustments
       /\ loaded.params = optimal_params

\* C10 witness: the last call reinforced parameters other than the defaults,
\* and the adjustment log already held an earlier adjustment.
C10_Witness ==
    /\ fb_last.op = "log"
    /\ Len(recent_adjustments) >= 2
    /\ recent_adjustments[Len(recent_adjustments)].parameter_name
         = "optimal_params_update"
    /\ recent_adjustments[Len(recent_adjustments)].timestamp = now
    /\ optimal_params # default_optimal_params
    /\ config_file # None

\* The entries of the recent window with one parameter-combination key.
KeyEntries(key) == SelectSeq(RecentNow, LAMBDA e : param_key(e) = key)
RecentKeys == Range(param_group_keys(RecentNow, <<>>))

\* The last operation was a log_feedback call made outside any cooldown: the
\* adjustments stamped now are those it recorded.
LoggedOutsideCooldown == fb_last.op = "log" /\ ~fb_last.cooldown
AdjustmentsOfCall == SelectSeq(recent_adjustments, LAMBDA a : a.timestamp = now)

\* C19: after a log_feedback call outside any cooldown that evaluated a group
\* (at least 3 entries of one key in a recent window of at least 5) with
\* combined_score above positive_feedback_boost, optimal_params holds the
\* retrieval_k and rerank_threshold of the group's first entry, an adjustment
\* is recorded and the cooldown runs.
C19_ReinforcedParamsAreSample ==
    (LoggedOutsideCooldown /\ Len(RecentNow) >= 5) =>
        \A key \in RecentKeys :
            (Len(KeyEntries(key)) >= 3 /\ is_great(KeyEntries(key))) =>
                /\ optimal_params.retrieval_k = KeyEntries(key)[1].retrieval_k
                /\ optimal_params.rerank_threshold
                     = KeyEntries(key)[1].rerank_threshold
                /\ AdjustmentsOfCall # <<>>
                /\ is_in_cooldown_period(recent_adjustments, now)

\* adj is what the analysis derives from the entries of key.
DerivedFrom(adj, key) ==
    CASE adj.parameter_name = "retrieval_k" ->
            /\ is_poor(KeyEntries(key))
            /\ adj.old_value = KeyEntries(key)[1].retrieval_k
      [] adj.parameter_name = "rerank_threshold" ->
            /\ is_poor(KeyEntries(key))
            /\ adj.old_value = KeyEntries(key)[1].rerank_threshold
      [] OTHER -> is_great(KeyEntries(key))

\* Every adjustment a call recorded is derived from a key with at least n
\* entries in the recent window.
AdjustedFromKeysOf(n) ==
    LoggedOutsideCooldown =>
        \A i \in DOMAIN AdjustmentsOfCall : \E key \in RecentKeys :
            /\ Len(KeyEntries(key)) >= n
            /\ DerivedFrom(AdjustmentsOfCall[i], key)

\* C20 as stated: an adjustment is derived only from a key that has at least
\* min_feedback_for_adjustment (5) entries in the recent window.
C20_AdjustedKeyHasMinFeedback == AdjustedFromKeysOf(min_feedback_for_adjustment)

\* C20: an adjustment is recorded only when the recent window holds at least
\* min_feedback_for_adjustment (5) entries over all keys, and is derived from
\* a key that has at least 3 of them.
C20_AdjustedKeyHasThreeOfFive ==
    /\ (LoggedOutsideCooldown /\ AdjustmentsOfCall # <<>>) => Len(RecentNow) >= 5
    /\ AdjustedFromKeysOf(min_group_entries)

\* A window of five entries, three of a badly rated key and two of another
\* key, from which the call adjusted retrieval_k.
C20_Witness ==
    /\ LoggedOutsideCooldown
    /\ Len(RecentNow) = 5
    /\ Cardinality(RecentKeys) = 2
    /\ AdjustmentsOfCall # <<>>
    /\ AdjustmentsOfCall[1].parameter_name = "retrieval_k"
    /\ \E key \in RecentKeys :
         /\ Len(KeyEntries(key)) = 3
         /\ DerivedFrom(AdjustmentsOfCall[1], key)

\* The old and new value of a recorded adjustment are those of the parameter
\* in optimal_params around the _apply_parameter_adjustment call.
OldValueAudited(a) ==
    a.adjustment.parameter_name \in {"retrieval_k", "rerank_threshold"}
        => a.adjustment.old_value = a.before[a.adjustment.parameter_name]

NewValueAudited(a) ==
    a.adjustment.parameter_name \in {"retrieval_k", "rerank_threshold"}
        => a.adjustment.new_value = a.after[a.adjustment.parameter_name]

\* C26: every adjustment named retrieval_k or rerank_threshold that a
\* log_feedback call records has as old_value the value of that parameter in
\* optimal_params immediately before it was applied and as new_value its value
\* immediately after, and a log_feedback call that changes optimal_params
\* records an adjustment.
C26_AdjustmentLogIsAuditTrail ==
    [][ fb_last'.op = "log"
        => /\ \A i \in 1..Len(fb_last'.applied) :
                /\ OldValueAudited(fb_last'.applied[i])
                /\ NewValueAudited(fb_last'.applied[i])
           /\ optimal_params' # optimal_params => fb_last'.applied # <<>> ]_vars

\* What does hold of the log: the new values are those assigned, and
\* optimal_params changes only in calls that record an adjustment.
C26_NewValuesAndChangesRecorded ==
    [][ fb_last'.op = "log"
        => /\ \A i \in 1..Len(fb_last'.applied) :
                NewValueAudited(fb_last'.applied[i])
           /\ optimal_params' # optimal_params => fb_last'.applied # <<>> ]_vars

(***************************************************************************)
(* FeedbackSystem with failing writes: the state machine                   *)
(***************************************************************************)
self_io == [f \in DOMAIN self_fb \cup {"torn"} |->
              IF f = "torn" THEN disk.torn ELSE self_fb[f]]

\* What a FeedbackSystem constructed now would load differs from memory.
FilesStale ==
    \/ disk.torn # {}
    \/ LET loaded == load_existing_data(feedback_file, adjustments_file, config_file)
       IN \/ loaded.entries # feedback_entries
          \/ loaded.adjustments # recent_adjustments
          \/ loaded.params # optimal_params

\* The submissions followed here: the default parameters rated badly, other
\* parameters rated well.
SubmissionsIO(t) ==
    { e \in Submissions(t) : (e.retrieval_k = default_retrieval_k) = (e.rating = "negative") }

InitFeedbackIO ==
    FeedbackIdle /\ SearchIdle /\ RagUnused /\ AnalyzerIdle /\ CallersIdle

\* POST /feedback/submit -> FeedbackSystem.log_feedback, on a disk whose
\* writes may fail.
LogFeedbackIO ==
    /\ Len(feedback_entries) < MaxCallsIO
    /\ \E entry \in SubmissionsIO(now), first \in SaveOutcomes :
      \E later \in IF adjustment_analysis(
                        [self_fb EXCEPT !.entries =
                            deque_append(@, entry, FeedbackMaxLen)], now).adjustments
                        = <<>>
                   THEN { SaveOk } ELSE SaveOutcomes :
      \E st \in {log_feedback_io(self_io, entry, now, first, later)} :
           /\ feedback_entries' = st.entries
           /\ recent_adjustments' = st.adjustments
           /\ optimal_params' = st.params
           /\ feedback_file' = st.feedback_file
           /\ adjustments_file' = st.adjustments_file
           /\ config_file' = st.config_file
           /\ disk' = [torn |-> st.torn,
                       last |-> IF first = SaveOk /\ later = SaveOk
                                THEN "ok" ELSE "failed",
                       stale |-> FilesStale]
           /\ fb_last' =
                [op |-> "log",
                 cooldown |-> is_in_cooldown_period(recent_adjustments, now),
                 applied |-> <<>>]      \* followed in SpecFeedback only
           /\ now' = now
           /\ UNCHANGED exceptFeedback

NextFeedbackIO == LogFeedbackIO

SpecFeedbackIO == InitFeedbackIO /\ [][NextFeedbackIO]_vars

C16_Witness ==
    /\ disk.last = "failed"
    /\ recent_adjustments # <<>>
    /\ adjustments_file = None
    /\ recent_adjustments[Len(recent_adjustments)].timestamp = now
    /\ ~disk.stale

InitSearch ==
    SearchIdle /\ FeedbackIdle /\ RagUnused /\ AnalyzerIdle /\ CallersIdle

\* HybridRetriever.fit(documents), which fits self.bm25 first.
Fit ==
    /\ search_out = NoSearch
    /\ \E documents \in SeqsUpTo(DocTexts, MaxDocs) :
        /\ bm25' = bm25_fit(documents)
        /\ hybrid' = hybrid_fit(documents)
        /\ UNCHANGED <<search_out, exceptSearch>>

\* BM25Retriever.search(query, top_k); ValueError before fit.
Bm25Search ==
    /\ search_out = NoSearch
    /\ \E query \in Queries, top_k \in 0..MaxTopK :
        /\ search_out' =
             IF ~bm25.is_fitted
             THEN [NoSearch EXCEPT !.op = "bm25_search", !.query = query,
                                   !.top_k = top_k, !.raised = TRUE]
             ELSE [NoSearch EXCEPT !.op = "bm25_search", !.query = query,
                                   !.top_k = top_k,
                                   !.results = bm25_search(bm25, query, top_k)]
        /\ UNCHANGED <<bm25, hybrid, exceptSearch>>

\* HybridRetriever.search_with_fallback(query, top_k); ValueError before fit.
SearchWithFallback ==
    /\ search_out = NoSearch
    /\ \E query \in Queries, top_k \in 0..MaxTopK :
        IF ~hybrid.is_fitted
        THEN /\ search_out' = [NoSearch EXCEPT !.op = "search_with_fallback",
                                  !.query = query, !.top_k = top_k, !.raised = TRUE]
             /\ UNCHANGED <<bm25, hybrid, exceptSearch>>
        ELSE \E sims \in [1..Len(hybrid.documents) -> Similarities],
                order \in Perms(0..(Len(hybrid.documents) - 1)) :
               /\ search_out' =
                    [NoSearch EXCEPT !.op = "search_with_fallback",
                        !.query = query, !.top_k = top_k,
                        !.dense = dense_search(hybrid, sims, dense_top_k),
                        !.results = search_with_fallback(hybrid, bm25, query,
                                        top_k, sims, order)]
               /\ UNCHANGED <<bm25, hybrid, exceptSearch>>

\* The call returns search_out.results, or raises, to its caller: calls on a
\* retriever follow one another.
Return ==
    /\ search_out # NoSearch
    /\ search_out' = NoSearch
    /\ UNCHANGED <<bm25, hybrid, exceptSearch>>

NextSearch == Fit \/ Bm25Search \/ SearchWithFallback \/ Return

SpecSearch == InitSearch /\ [][NextSearch]_vars

\* The lists _combine_scores may be handed: pairs of distinct indices of the
\* fitted documents with raw scores.
ScoredLists(n) ==
    { l \in SeqsUpTo([idx : 0..(n - 1), score : RawScores], MaxListLen) :
        \A i, j \in DOMAIN l : l[i].idx = l[j].idx => i = j }

\* A retriever fitted on three documents.
FusionCorpus == << <<"a">>, <<"A", "b">>, <<"b", "b">> >>

InitFusion ==
    /\ bm25 = bm25_fit(FusionCorpus)
    /\ hybrid = hybrid_fit(FusionCorpus)
    /\ search_out = NoSearch
    /\ FeedbackIdle
    /\ RagUnused
    /\ AnalyzerIdle
    /\ CallersIdle

\* HybridRetriever._combine_scores(dense_results, sparse_results)
CombineScores ==
    /\ search_out = NoSearch
    /\ \E dense_results \in ScoredLists(Len(hybrid.documents)),
       sparse_results \in ScoredLists(Len(hybrid.documents)),
       order \in Perms(0..(Len(hybrid.documents) - 1)) :
        /\ search_out' =
             [NoSearch EXCEPT !.op = "combine_scores",
                 !.dense = dense_results, !.sparse = sparse_results,
                 !.results = combine_scores(hybrid, dense_results,
                                 sparse_results, order)]
        /\ UNCHANGED <<bm25, hybrid, exceptSearch>>

NextFusion == CombineScores \/ Return

SpecFusion == InitFusion /\ [][NextFusion]_vars

(***************************************************************************)
(* BM25Retriever and HybridRetriever: properties                           *)
(***************************************************************************)
\* C7: on a fitted corpus of N documents, BM25Retriever.search(query, top_k)
\* with top_k >= 0 returns at most top_k and at most N (index, score) pairs,
\* no document index twice, the scores non-increasing, and documents of equal
\* score in their corpus order.
C7_Bm25SearchOrdered ==
    (search_out.op = "bm25_search" /\ ~search_out.raised) =>
        LET res == search_out.results
            N == Len(bm25.corpus)
        IN /\ Len(res) <= search_out.top_k
           /\ Len(res) <= N
           /\ \A i \in DOMAIN res : res[i].idx \in 0..(N - 1)
           /\ \A i, j \in DOMAIN res :
                i < j => /\ res[i].idx # res[j].idx
                         /\ res[i].score >= res[j].score
                         /\ res[i].score = res[j].score => res[i].idx < res[j].idx

\* A search that returned two documents of one non-zero score, the later
\* document of the corpus ranked above an earlier one of lower score.
C7_Witness ==
    /\ search_out.op = "bm25_search"
    /\ ~search_out.raised
    /\ Len(search_out.results) = 2
    /\ search_out.results[1].score = search_out.results[2].score
    /\ search_out.results[1].score # 0

\* A search cut to top_k results, which ranked a later document first.
C7_WitnessCut ==
    /\ search_out.op = "bm25_search"
    /\ Len(search_out.results) = 1
    /\ Len(bm25.corpus) = 2
    /\ search_out.results[1].idx = 1

\* C6: when the best dense similarity is below fallback_threshold, or the
\* dense search returned nothing, search_with_fallback(query, top_k) returns
\* the documents of BM25Retriever.search(query, top_k) in that order, each
\* with retrieval_method "sparse_fallback".
C6_FallbackIsSparseSearch ==
    ( /\ search_out.op = "search_with_fallback"
      /\ ~search_out.raised
      /\ \/ search_out.dense = <<>>
         \/ search_out.dense[1].score < fallback_threshold ) =>
        LET res == search_out.results
            sparse_results == bm25_search(bm25, search_out.query, search_out.top_k)
        IN /\ Len(res) = Len(sparse_results)
           /\ \A i \in DOMAIN res :
                /\ res[i].chunk_id = sparse_results[i].idx
                /\ res[i].content = bm25.corpus[sparse_results[i].idx + 1]
                /\ res[i].retrieval_method = "sparse_fallback"

\* A fallback taken after a dense search that did return similarities, all
\* below the threshold, and that returned two documents.
C6_Witness ==
    /\ search_out.op = "search_with_fallback"
    /\ search_out.dense # <<>>
    /\ search_out.dense[1].score < fallback_threshold
    /\ Len(search_out.results) = 2
    /\ search_out.results[1].retrieval_method = "sparse_fallback"
    /\ search_out.results[1].sparse_score > search_out.results[2].sparse_score

\* A fallback taken because the dense search returned nothing.
C6_WitnessNoDense ==
    /\ search_out.op = "search_with_fallback"
    /\ ~search_out.raised
    /\ search_out.dense = <<>>

\* The one non-empty list of a _combine_scores call, once normalized.
OneEmpty ==
    /\ search_out.op = "combine_scores"
    /\ (search_out.dense = <<>>) # (search_out.sparse = <<>>)
Normalized ==
    normalize_scores(IF search_out.sparse = <<>> THEN search_out.dense
                     ELSE search_out.sparse)
FusionWeight == IF search_out.sparse = <<>> THEN dense_weight ELSE sparse_weight

\* The results hold every index of the normalized list once, the normalized
\* score in the field of its list and zero in the other, the method that of
\* the list, and hybrid_score the given multiple of the normalized score.
ReducesToNormalized(factor) ==
    LET res == search_out.results
    IN /\ Len(res) = Len(Normalized)
       /\ \A n \in DOMAIN Normalized : \E i \in DOMAIN res :
            /\ res[i].chunk_id = Normalized[n].idx
            /\ res[i].hybrid_score = factor * Normalized[n].score
            /\ IF search_out.sparse = <<>>
               THEN /\ res[i].dense_score = Normalized[n].score
                    /\ res[i].sparse_score = 0
                    /\ res[i].retrieval_method = "dense"
               ELSE /\ res[i].sparse_score = Normalized[n].score
                    /\ res[i].dense_score = 0
                    /\ res[i].retrieval_method = "sparse"
       /\ \A i, j \in DOMAIN res : i < j =>
            IF search_out.sparse = <<>>
            THEN res[i].dense_score >= res[j].dense_score
            ELSE res[i].sparse_score >= res[j].sparse_score

\* C9 as stated: with exactly one list empty, each result's hybrid_score
\* equals the entry's normalized score (1000 millionths to the thousandth).
C9_HybridScoreIsNormalized == OneEmpty => ReducesToNormalized(1000)

\* C9: with exactly one list empty, _combine_scores returns the entries of
\* the other list, min-max normalized, in non-increasing order of normalized
\* score, each tagged "dense" (sparse list empty) or "sparse" (dense list
\* empty), with hybrid_score the weight of that list times the normalized
\* score.
C9_HybridScoreIsWeightedNormalized == OneEmpty => ReducesToNormalized(FusionWeight)

\* Two dense entries of different scores combined with an empty sparse list.
C9_Witness ==
    /\ OneEmpty
    /\ search_out.sparse = <<>>
    /\ Len(search_out.results) = 2
    /\ search_out.results[1].hybrid_score = dense_weight * 1000
    /\ search_out.results[2].hybrid_score = 0
    /\ search_out.results[1].chunk_id = search_out.dense[2].idx

\* The min-max normalized score, in thousandths, of index idx in a list of
\* (index, score) pairs that names no index twice: 0 for an index the list
\* does not name, 1000 throughout a list whose scores are all equal.
MinMaxOf(list, idx) ==
    LET values == { list[i].score : i \in DOMAIN list }
        lo == CHOOSE x \in values : \A y \in values : x <= y
        hi == CHOOSE x \in values : \A y \in values : x >= y
    IN IF \A i \in DOMAIN list : list[i].idx # idx THEN 0
       ELSE LET raw == (CHOOSE e \in Range(list) : e.idx = idx).score
            IN IF hi = lo THEN 1000 ELSE ((raw - lo) * 1000) \div (hi - lo)

\* C24: _combine_scores returns one result for each index of the union of its
\* two lists and no other; dense_score and sparse_score are the scores of the
\* index normalized min-max within their own list (1.0 in a list of equal
\* scores, 0 for an index the list lacks), hybrid_score is dense_weight times
\* the one plus sparse_weight times the other, retrieval_method is "hybrid"
\* for an index of both lists and else "dense" or "sparse" after the list
\* that has it, and the hybrid scores do not increase along the result.
C24_CombineScoresFusesUnion ==
    search_out.op = "combine_scores" =>
        LET res == search_out.results
            in_dense == { search_out.dense[i].idx : i \in DOMAIN search_out.dense }
            in_sparse == { search_out.sparse[i].idx : i \in DOMAIN search_out.sparse }
        IN /\ { res[i].chunk_id : i \in DOMAIN res } = in_dense \cup in_sparse
           /\ Len(res) = Cardinality(in_dense \cup in_sparse)
           /\ \A i \in DOMAIN res :
                LET idx == res[i].chunk_id IN
                /\ res[i].dense_score = MinMaxOf(search_out.dense, idx)
                /\ res[i].sparse_score = MinMaxOf(search_out.sparse, idx)
                /\ res[i].dense_score \in 0..1000
                /\ res[i].sparse_score \in 0..1000
                /\ res[i].hybrid_score = dense_weight * res[i].dense_score
                                          + sparse_weight * res[i].sparse_score
                /\ res[i].retrieval_method =
                      IF idx \in in_dense /\ idx \in in_sparse THEN "hybrid"
                      ELSE IF idx \in in_dense THEN "dense" ELSE "sparse"
           /\ \A i, j \in DOMAIN res :
                i < j => res[i].hybrid_score >= res[j].hybrid_score

\* Two dense entries of different scores and one sparse entry, which is alone
\* in its list and normalizes to 1.0: one index is in both lists, one in the
\* dense list only.
C24_Witness ==
    /\ search_out.op = "combine_scores"
    /\ Len(search_out.dense) = 2
    /\ Len(search_out.sparse) = 1
    /\ search_out.sparse[1].score = 0
    /\ search_out.dense[1].score < search_out.dense[2].score
    /\ search_out.sparse[1].idx = search_out.dense[1].idx
    /\ Len(search_out.results) = 2
    /\ search_out.results[1].retrieval_method = "dense"
    /\ search_out.results[1].hybrid_score = dense_weight * 1000
    /\ search_out.results[2].retrieval_method = "hybrid"
    /\ search_out.results[2].hybrid_score = sparse_weight * 1000

(***************************************************************************)
(* RAGRetriever: the state machine                                         *)
(***************************************************************************)
InitRag ==
    /\ RagIdle /\ NoVectorstore
    /\ FeedbackIdle /\ SearchIdle /\ AnalyzerIdle /\ CallersIdle

\* retrieve_context from the rerank on: candidate_docs are the candidates
\* left by the retrieval and the metadata filter.
RetrieveContext ==
    /\ rag.call = NoCall
    /\ \E k \in 1..MaxK, n \in 0..MaxCandidates :
       LET candidate_docs == [i \in 1..n |-> i]
           reranking == rag.cross_encoder /\ n > k
       IN
       \E predicted \in StageOutcomes(reranking, n, ModelScores) :
       LET reranked ==
             IF reranking
             THEN rerank_with_cross_encoder(rag, candidate_docs, Min2(k * 2, n),
                                            predicted)
             ELSE Take(candidate_docs, Min2(k * 2, n))
       IN
       \E overlapping \in { None } \cup { Some(S) : S \in SUBSET Range(reranked) } :
       LET kept == filter_by_keyword_overlap(reranked, overlapping)
           clustering == Len(kept) > k /\ Len(kept) > k * 2 /\ rag.embedding_model
       IN
       \E clustered \in StageOutcomes(clustering, Len(kept), ClusterLabels) :
       LET grouped ==
             IF Len(kept) > k
             THEN cluster_documents_post_rerank(rag, kept, k * 2, clustered)
             ELSE kept
           scoring == Len(grouped) > k /\ rag.embedding_model
       IN
       \E coherence \in StageOutcomes(scoring, Len(grouped), ModelScores) :
         /\ rag' = [rag EXCEPT !.call =
                      [op |-> "retrieve_context", k |-> k,
                       candidate_docs |-> candidate_docs,
                       reranked |-> reranked, overlapping |-> overlapping,
                       kept |-> kept, grouped |-> grouped,
                       relevant_docs |->
                           score_context_coherence(rag, grouped, k, coherence)]]
         /\ UNCHANGED <<retrieval, exceptRag>>

\* retrieve_context returns relevant_docs.
ReturnContext ==
    /\ rag.call # NoCall
    /\ rag' = [rag EXCEPT !.call = NoCall]
    /\ UNCHANGED <<retrieval, exceptRag>>

NextRag == RetrieveContext \/ ReturnContext

SpecRag == InitRag /\ [][NextRag]_vars

(***************************************************************************)
(* RAGRetriever: properties                                                *)
(***************************************************************************)
\* C5: for k >= 1 and any candidate list, what the rerank pipeline of
\* retrieve_context returns has at most k elements, each of them one of the
\* candidates that entered the pipeline and none of them twice, with or
\* without the cross-encoder and the embedding model.
C5_RerankWithinCandidates ==
    rag.call # NoCall =>
        LET out == rag.call.relevant_docs
        IN /\ Len(out) <= rag.call.k
           /\ \A i \in DOMAIN out : out[i] \in Range(rag.call.candidate_docs)
           /\ \A i, j \in DOMAIN out : out[i] = out[j] => i = j

\* More candidates than 2k, reranked out of their order, all kept by the
\* keyword filter, and cut to k by the coherence scores.
C5_Witness ==
    /\ rag.call # NoCall
    /\ rag.cross_encoder
    /\ rag.embedding_model
    /\ Len(rag.call.candidate_docs) > 2 * rag.call.k
    /\ rag.call.reranked[1] # 1
    /\ Len(rag.call.kept) = 2 * rag.call.k
    /\ Len(rag.call.relevant_docs) = rag.call.k
    /\ rag.call.relevant_docs # Take(rag.call.grouped, rag.call.k)

\* The pipeline without a scorer and without an embedding model.
C5_WitnessNoModels ==
    /\ rag.call # NoCall
    /\ ~rag.cross_encoder
    /\ ~rag.embedding_model
    /\ Len(rag.call.kept) > rag.call.k
    /\ Len(rag.call.relevant_docs) = rag.call.k

\* C21: what _filter_by_keyword_overlap returns is a sub-list of its input in
\* the input's order, is not empty when the input is not, and is the input
\* itself when no document reaches min_overlap, when the query has no
\* keywords and when the filter raised.
C21_KeywordFilterNeverEmpties ==
    rag.call # NoCall =>
        LET docs == rag.call.reranked
            out == rag.call.kept
            reaching == IF rag.call.overlapping = None THEN {}
                        ELSE rag.call.overlapping[1] \cap Range(docs)
        IN /\ \E I \in SUBSET DOMAIN docs : out = AtIndices(docs, I)
           /\ docs # <<>> => out # <<>>
           /\ reaching = {} => out = docs
           /\ reaching # {} => Range(out) = reaching

\* The filter drops some of the reranked documents, out of the order of the
\* candidates, and keeps the rest in the order it was given.
C21_Witness ==
    /\ rag.call # NoCall
    /\ rag.call.overlapping # None
    /\ Len(rag.call.reranked) >= 3
    /\ rag.call.reranked[1] > rag.call.reranked[2]
    /\ Len(rag.call.kept) = 2
    /\ rag.call.kept = <<rag.call.reranked[1], rag.call.reranked[3]>>

\* No document reaches min_overlap and all come back.
C21_WitnessNoneReaches ==
    /\ rag.call # NoCall
    /\ rag.call.overlapping = Some({})
    /\ Len(rag.call.reranked) >= 2
    /\ rag.call.kept = rag.call.reranked

(***************************************************************************)
(* RAGRetriever.retrieve_context as a whole: the state machine             *)
(***************************************************************************)
InitRetrieve ==
    /\ RagIdle /\ NoVectorstore
    /\ FeedbackIdle /\ SearchIdle /\ AnalyzerIdle /\ CallersIdle

\* build_vectorstore(docs) of an upload returning True (it needs docs and the
\* embedding model): the vectorstore is set and saved, and the hybrid
\* retriever initialized; fitted says whether HybridRetriever.fit returns.
BuildVectorstore ==
    /\ retrieval.call = NoCall
    /\ ~retrieval.built
    /\ rag.embedding_model
    /\ \E fitted \in BOOLEAN :
         retrieval' = [retrieval EXCEPT
                         !.vectorstore = TRUE, !.built = TRUE,
                         !.hybrid_retriever = initialize_hybrid_retriever(fitted)]
    /\ UNCHANGED <<rag, exceptRag>>

\* load_vectorstore() finding an index on disk; it needs the embedding model
\* and leaves vectorstore None when it fails.
LoadVectorstore ==
    /\ retrieval.call = NoCall
    /\ ~retrieval.vectorstore
    /\ rag.embedding_model
    /\ retrieval' = [retrieval EXCEPT !.vectorstore = TRUE]
    /\ UNCHANGED <<rag, exceptRag>>

\* retrieve_context(question, k, filter_criteria): without a vectorstore it
\* returns the empty list.
RetrieveContextCall ==
    /\ retrieval.call = NoCall
    /\ \E k \in 1..MaxK, n \in 0..MaxCandidates, searched, searched_more \in BOOLEAN :
       \E criteria \in { None } \cup { Some(S) : S \in SUBSET (1..n) } :
       \E hybrid_docs \in
             IF retrieval.hybrid_retriever /\ n > 0
             THEN { None } \cup { Some(p) : p \in Perms(1..Min2(n, MaxK)) }
             ELSE { None } :
       \E r \in IF retrieval.vectorstore
                THEN retrieve_context(rag, n, k, criteria, searched, searched_more,
                                      hybrid_docs)
                ELSE { Retrieved(<<>>, <<>>, FALSE, FALSE, <<>>)
                         @@ [fused |-> FALSE, filtering |-> FALSE,
                             filtered |-> <<>>, requeried |-> FALSE,
                             filtered_more |-> <<>>, widened |-> FALSE,
                             predicted |-> None, reranked |-> <<>>,
                             kept |-> <<>>, grouped |-> <<>>] } :
         /\ retrieval' = [retrieval EXCEPT !.call =
                [op |-> "retrieve_context", k |-> k, result |-> r]]
         /\ UNCHANGED <<rag, exceptRag>>

\* retrieve_context returns.
ReturnRetrieved ==
    /\ retrieval.call # NoCall
    /\ retrieval' = [retrieval EXCEPT !.call = NoCall]
    /\ UNCHANGED <<rag, exceptRag>>

\* The metadata a chunk may carry, and the criteria a request may give
\* (doc_filter of QuestionRequest: any value under a string key).
MetadataValues ==
    [title |-> { PyStr("A"), PyStr("b") }, page |-> { PyInt(3), PyInt(5) }]

Metadatas ==
    UNION { [K -> UNION { MetadataValues[key] : key \in K }] :
            K \in SUBSET { "title", "page" } }

ChunkMetadatas ==
    { m \in Metadatas : \A key \in DOMAIN m : m[key] \in MetadataValues[key] }

CriterionValues ==
    { PyStr("a"), PyStr("3"), PyInt(3), PyList(<<PyStr("a"), PyStr("5")>>),
      PyList(<<PyInt(3)>>) }

FilterCriteria ==
    { items \in SeqsUpTo([key : { "title", "page" }, value : CriterionValues], 2) :
        \A i, j \in DOMAIN items : items[i].key = items[j].key => i = j }

\* _filter_documents_by_metadata(docs, filter_criteria) as retrieve_context
\* calls it.
FilterDocumentsByMetadata ==
    /\ retrieval.call = NoCall
    /\ \E docs \in SeqsUpTo(ChunkMetadatas, MaxDocs), items \in FilterCriteria :
         retrieval' = [retrieval EXCEPT !.call =
             [op |-> "filter_documents_by_metadata", docs |-> docs,
              filter_criteria |-> items,
              result |-> filter_documents_by_criteria(docs, items)]]
    /\ UNCHANGED <<rag, exceptRag>>

NextFilter == FilterDocumentsByMetadata \/ ReturnRetrieved

SpecFilter == InitRetrieve /\ [][NextFilter]_vars

NextRetrieve ==
    BuildVectorstore \/ LoadVectorstore \/ RetrieveContextCall \/ ReturnRetrieved

SpecRetrieve == InitRetrieve /\ [][NextRetrieve]_vars

C11_BestEffortFromCandidates ==
    retrieval.call # NoCall =>
        LET r == retrieval.call.result
        IN /\ r.relevant_docs \in Seq(1..MaxCandidates)
           /\ Len(r.relevant_docs) <= retrieval.call.k
           /\ (r.reranking /\ r.candidate_docs # <<>>) =>
                 /\ r.relevant_docs # <<>>
                 /\ Range(r.relevant_docs) \subseteq Range(r.candidate_docs)

\* More candidates than k, the cross-encoder raised, and the first candidates
\* come back.
C11_Witness ==
    /\ retrieval.call # NoCall
    /\ rag.cross_encoder
    /\ retrieval.call.result.degraded
    /\ Len(retrieval.call.result.candidate_docs) > 2 * retrieval.call.k
    /\ retrieval.call.result.relevant_docs
         = Take(retrieval.call.result.candidate_docs, retrieval.call.k)

\* The filter left fewer than k candidates and the search for more raised.
C11_WitnessSearchRaised ==
    /\ retrieval.call # NoCall
    /\ retrieval.call.result.candidate_docs # <<>>
    /\ ~retrieval.call.result.reranking
    /\ retrieval.call.result.relevant_docs = <<>>

\* C22: once build_vectorstore has succeeded the hybrid retriever is there
\* and fitted, and a retrieve_context call that obtains candidates hands them
\* to search_with_fallback.
C22_HybridAfterBuild ==
    retrieval.built =>
        /\ retrieval.hybrid_retriever
        /\ (retrieval.call # NoCall /\ retrieval.call.result.retrieved # <<>>)
              => retrieval.call.result.fused

\* C23: when a metadata filter is in effect and leaves fewer than k
\* candidates, none included, the vector store is queried again for three
\* times candidates_k, the filter applied again and the wider filtered pool
\* reranked; when the filter leaves k candidates or more, or there is no
\* filter, there is no second query.
C23_RequeryWheneverTooFew ==
    retrieval.call # NoCall =>
        LET r == retrieval.call.result
            k == retrieval.call.k
        IN /\ (r.filtering /\ Len(r.filtered) < k) => r.requeried
           /\ (r.filtering /\ Len(r.filtered) >= k) => ~r.requeried
           /\ ~r.filtering => ~r.requeried
           /\ (r.requeried /\ r.reranking) => r.candidate_docs = r.filtered_more

\* The same for a filter that leaves some candidates but fewer than k; a
\* filter that leaves none is followed by no second query.
C23_RequeryWhenSomeButTooFew ==
    retrieval.call # NoCall =>
        LET r == retrieval.call.result
            k == retrieval.call.k
        IN /\ (r.filtering /\ 0 < Len(r.filtered) /\ Len(r.filtered) < k)
                => r.requeried
           /\ (r.filtering /\ Len(r.filtered) = 0) => ~r.requeried
           /\ (r.filtering /\ Len(r.filtered) >= k) => ~r.requeried
           /\ ~r.filtering => ~r.requeried
           /\ (r.requeried /\ r.reranking) => r.candidate_docs = r.filtered_more

\* The second query found more chunks that meet the criteria.
C23_Witness ==
    /\ retrieval.call # NoCall
    /\ retrieval.call.result.requeried
    /\ retrieval.call.result.widened
    /\ Len(retrieval.call.result.candidate_docs)
         > Len(retrieval.call.result.filtered)

\* The first rerank stage put out the candidates in their order, cut to cap.
PassedThrough(r, cap) == r.reranked = Take(r.candidate_docs, cap)

\* The first rerank stage put out the cap candidates of the highest scores,
\* in non-increasing order of score.
SortedByScore(r, cap) ==
    LET n == Len(r.candidate_docs)
        score(d) == r.predicted[1][CHOOSE i \in 1..n : r.candidate_docs[i] = d]
    IN /\ Len(r.reranked) = Min2(cap, n)
       /\ Range(r.reranked) \subseteq Range(r.candidate_docs)
       /\ \A i, j \in DOMAIN r.reranked :
            i < j => /\ r.reranked[i] # r.reranked[j]
                     /\ score(r.reranked[i]) >= score(r.reranked[j])
       /\ \A d \in Range(r.candidate_docs) \ Range(r.reranked) :
            \A i \in DOMAIN r.reranked : score(r.reranked[i]) >= score(d)

\* C25 as stated: the first rerank stage puts out the candidates sorted by
\* non-increasing score and cut to 2k when the scorer scored them, and the
\* candidates in their order, cut to k, when there is no scorer.
C25_UnavailableCappedAtK ==
    (retrieval.call # NoCall /\ retrieval.call.result.reranking) =>
        LET r == retrieval.call.result
            k == retrieval.call.k
        IN /\ (rag.cross_encoder /\ r.predicted # None) => SortedByScore(r, 2 * k)
           /\ ~rag.cross_encoder => PassedThrough(r, k)

\* C25: the first rerank stage puts out the candidates sorted by
\* non-increasing score and cut to 2k when the scorer scored them (there is a
\* scorer, more than k candidates, and its call returned); in every other
\* case it puts out the candidates in their order, cut to 2k.
C25_UnavailableCappedAt2K ==
    (retrieval.call # NoCall /\ retrieval.call.result.reranking) =>
        LET r == retrieval.call.result
            k == retrieval.call.k
        IN /\ r.predicted # None =>
                /\ rag.cross_encoder /\ Len(r.candidate_docs) > k
                /\ SortedByScore(r, 2 * k)
           /\ r.predicted = None => PassedThrough(r, 2 * k)

\* Without a scorer, more than k candidates leave the stage.
C25_Witness ==
    /\ retrieval.call # NoCall
    /\ retrieval.call.result.reranking
    /\ ~rag.cross_encoder
    /\ Len(retrieval.call.result.reranked) > retrieval.call.k
    /\ retrieval.call.result.widened

\* The scorer put more than 2k candidates out of their order.
C25_WitnessScored ==
    /\ retrieval.call # NoCall
    /\ retrieval.call.result.reranking
    /\ retrieval.call.result.predicted # None
    /\ Len(retrieval.call.result.candidate_docs) > 2 * retrieval.call.k
    /\ Len(retrieval.call.result.reranked) = 2 * retrieval.call.k
    /\ retrieval.call.result.reranked[1] > retrieval.call.result.reranked[2]

\* C28: in retrieve_context at most 2k candidates reach the clustering stage,
\* and the stage hands on the list it was given.
C28_ClusteringLeavesListAlone ==
    (retrieval.call # NoCall /\ retrieval.call.result.reranking) =>
        LET r == retrieval.call.result
        IN /\ Len(r.kept) <= 2 * retrieval.call.k
           /\ r.grouped = r.kept

\* The clustering stage is entered with 2k candidates out of more, with a
\* scorer and an embedding model.
C28_Witness ==
    /\ retrieval.call # NoCall
    /\ retrieval.call.result.reranking
    /\ rag.cross_encoder
    /\ rag.embedding_model
    /\ Len(retrieval.call.result.candidate_docs) > 2 * retrieval.call.k
    /\ Len(retrieval.call.result.kept) = 2 * retrieval.call.k
    /\ retrieval.call.result.grouped = retrieval.call.result.kept
    /\ Len(retrieval.call.result.relevant_docs) = retrieval.call.k

\* The document's metadata have the key and their value, written as a
\* string, is the criterion (or one of the listed criteria) written as a
\* string, whatever the case of the letters.
MeetsCriterion(metadata, item) ==
    /\ item.key \in DOMAIN metadata
    /\ LET wanted == IF item.value.t = "list"
                     THEN { lower(py_str(item.value.items[j])) :
                              j \in DOMAIN item.value.items }
                     ELSE { lower(py_str(item.value)) }
       IN lower(py_str(metadata[item.key])) \in wanted

\* C29: a document that _filter_documents_by_metadata keeps meets every
\* criterion: its metadata have the key and the value matches, for criteria
\* that are strings, lists and integers alike.
C29_KeptMeetsEveryCriterion ==
    (/\ retrieval.call # NoCall
     /\ retrieval.call.op = "filter_documents_by_metadata"
     /\ retrieval.call.result # None) =>
        \A i \in DOMAIN retrieval.call.result[1] :
          \A j \in DOMAIN retrieval.call.filter_criteria :
            MeetsCriterion(retrieval.call.result[1][i],
                           retrieval.call.filter_criteria[j])

\* The same for criteria that are strings or lists of strings.
C29_KeptMeetsStringCriteria ==
    (/\ retrieval.call # NoCall
     /\ retrieval.call.op = "filter_documents_by_metadata"
     /\ retrieval.call.result # None) =>
        \A i \in DOMAIN retrieval.call.result[1] :
          \A j \in DOMAIN retrieval.call.filter_criteria :
            retrieval.call.filter_criteria[j].value.t # "int" =>
                MeetsCriterion(retrieval.call.result[1][i],
                               retrieval.call.filter_criteria[j])

(***************************************************************************)
(* Callers of the FeedbackSystem singleton: the state machine              *)
(***************************************************************************)
InitThreads ==
    /\ FeedbackIdle /\ SearchIdle /\ RagUnused /\ AnalyzerIdle /\ CallersIdle

AllDone == \A i \in DOMAIN threads.running : threads.running[i].pc = "done"

ThreadsOf(op) == SelectSeq(threads.running, LAMBDA th : th.op = op)

\* A caller enters log_feedback or ask_question.
Spawn ==
    /\ Len(threads.running) < MaxThreads
    /\ threads.spawned < MaxSpawned
    /\ \E th \in { LogFeedbackCall(e) : e \in SubmissionsIO(now) } \cup { AskQuestionCall } :
         threads' = [running |-> Append(threads.running, th),
                     spawned |-> threads.spawned + 1,
                     base |-> IF threads.running = <<>>
                              THEN [entries |-> feedback_entries,
                                    adjustments |-> recent_adjustments,
                                    params |-> optimal_params]
                              ELSE threads.base]
    /\ UNCHANGED <<fbVars, searchVars, ragVars, analyzerVars, racing, sessions, monitor>>

\* A call in log_feedback runs its next statement.
StepLogFeedback ==
    \E i \in DOMAIN threads.running :
      /\ threads.running[i].op = "log_feedback"
      /\ threads.running[i].pc # "done"
      /\ \E r \in {log_feedback_step(self_fb, threads.running[i], now)} :
           /\ feedback_entries' = r.st.entries
           /\ recent_adjustments' = r.st.adjustments
           /\ optimal_params' = r.st.params
           /\ feedback_file' = r.st.feedback_file
           /\ adjustments_file' = r.st.adjustments_file
           /\ config_file' = r.st.config_file
           /\ threads' = [threads EXCEPT !.running[i] = r.th]
      /\ UNCHANGED <<now, fb_last, disk, searchVars, ragVars, analyzerVars,
                     racing, sessions, monitor>>

\* A call in ask_question runs its next statement.
StepAskQuestion ==
    \E i \in DOMAIN threads.running :
      /\ threads.running[i].op = "ask_question"
      /\ threads.running[i].pc # "done"
      /\ threads' = [threads EXCEPT !.running[i] =
                        ask_question_step(self_fb, @, retrieval.vectorstore)]
      /\ UNCHANGED <<fbVars, searchVars, ragVars, analyzerVars, racing, sessions, monitor>>

\* The calls in progress have all returned.
Join ==
    /\ threads.running # <<>>
    /\ AllDone
    /\ threads' = [threads EXCEPT !.running = <<>>]
    /\ UNCHANGED <<fbVars, searchVars, ragVars, analyzerVars, racing, sessions, monitor>>

NextThreads ==
    Spawn \/ StepLogFeedback \/ StepAskQuestion \/ Join \/ LoadVectorstore

SpecThreads == InitThreads /\ [][NextThreads]_vars

\* The entries of the log_feedback calls in progress, in the order of a
\* permutation of them.
EntriesInOrder(perm) ==
    [i \in DOMAIN perm |-> ThreadsOf("log_feedback")[perm[i]].entry[1]]

\* C13: when log_feedback calls that ran at the same time have all returned,
\* the feedback buffer, the adjustment log and optimal_params are those that
\* the calls leave when made one after the other in some order.
C13_EqualsSomeSerialOrder ==
    (AllDone /\ Len(ThreadsOf("log_feedback")) >= 2) =>
        \E perm \in Perms(1..Len(ThreadsOf("log_feedback"))) :
          LET start == [self_fb EXCEPT !.entries = threads.base.entries,
                                       !.adjustments = threads.base.adjustments,
                                       !.params = threads.base.params]
              st == log_feedback_in_turn(start, EntriesInOrder(perm), now)
          IN /\ feedback_entries = st.entries
             /\ recent_adjustments = st.adjustments
             /\ optimal_params = st.params

\* C14: the parameters a query read while one log_feedback call ran are those
\* of before that call or those of after it.
C14_SnapshotIsPreOrPost ==
    (AllDone /\ Len(ThreadsOf("log_feedback")) = 1) =>
        \A i \in DOMAIN threads.running :
          threads.running[i].op = "ask_question" =>
            threads.running[i].snapshot
              \in { Some(threads.base.params), Some(optimal_params) }

\* C12: a query that reached retrieve_context applied the retrieval_k it read
\* from get_optimal_parameters, and its response reports the retrieval_k and
\* rerank_threshold it read.
C12_ReadParametersAppliedAndReported ==
    \A i \in DOMAIN threads.running :
      LET th == threads.running[i] IN
      (th.op = "ask_question" /\ th.pc = "done" /\ th.reached) =>
         /\ th.applied = Some(th.snapshot[1].retrieval_k)
         /\ th.response[1].retrieval_k = Some(th.snapshot[1].retrieval_k)
         /\ th.response[1].rerank_threshold = Some(th.snapshot[1].rerank_threshold)

(***************************************************************************)
(* Callers of one BM25Retriever: the state machine                         *)
(***************************************************************************)
InitRace == SearchIdle /\ FeedbackIdle /\ RagUnused /\ AnalyzerIdle /\ CallersIdle

Fitting == \E i \in DOMAIN racing.running : racing.running[i].op = "fit"

\* The first fit, before the retriever is handed to anyone else.
FirstFit ==
    /\ ~bm25.is_fitted
    /\ \E corpus \in SeqsUpTo(DocTexts, MaxDocs) :
         /\ bm25' = bm25_fit(corpus)
         /\ racing' = [racing EXCEPT !.old = bm25_fit(corpus)]
    /\ UNCHANGED <<fbVars, hybrid, search_out, ragVars, analyzerVars,
                   threads, sessions, monitor>>

\* A caller enters fit or search on the fitted retriever; one fit at a time.
SpawnRacer ==
    /\ bm25.is_fitted
    /\ Len(racing.running) < MaxThreads
    /\ racing.spawned < MaxRacers
    /\ \E th \in { SearchCall(q, k) : q \in Queries, k \in 1..MaxTopK }
                 \cup (IF Fitting THEN {}
                       ELSE { FitCall(c) : c \in SeqsUpTo(DocTexts, MaxDocs) }) :
         racing' = [racing EXCEPT !.running = Append(@, th), !.spawned = @ + 1]
    /\ UNCHANGED <<fbVars, searchVars, ragVars, analyzerVars, threads, sessions, monitor>>

\* The call in fit runs its next statement.
StepFit ==
    \E i \in DOMAIN racing.running :
      /\ racing.running[i].op = "fit"
      /\ racing.running[i].pc # "done"
      /\ \E st \in {bm25_fit_step(bm25, racing.running[i])} :
           /\ bm25' = st.r
           /\ racing' = [racing EXCEPT
                           !.running[i] = st.th,
                           !.replaced = @ \/ racing.running[i].pc = "doc_freqs"]
      /\ UNCHANGED <<fbVars, hybrid, search_out, ragVars, analyzerVars,
                     threads, sessions, monitor>>

\* A call in search runs its next step.
StepSearch ==
    \E i \in DOMAIN racing.running :
      /\ racing.running[i].op = "search"
      /\ racing.running[i].pc # "done"
      /\ racing' = [racing EXCEPT !.running[i] =
                       bm25_search_step(bm25, @, racing.old.doc_freqs,
                                        racing.replaced)]
      /\ UNCHANGED <<fbVars, searchVars, ragVars, analyzerVars, threads, sessions, monitor>>

NextRace == FirstFit \/ SpawnRacer \/ StepFit \/ StepSearch

SpecRace == InitRace /\ [][NextRace]_vars

\* What the fit of this run makes of the retriever (the retriever as it was,
\* without one).
Refitted ==
    IF Fitting
    THEN LET i == CHOOSE j \in DOMAIN racing.running : racing.running[j].op = "fit"
         IN bm25_fit(racing.running[i].corpus)
    ELSE racing.old

\* C15: a search that ran while fit ran on the fitted retriever did not fail
\* and returns what search returns on the old index or what it returns on
\* the new one.
C15_SearchSeesOldOrNewIndex ==
    \A i \in DOMAIN racing.running :
      LET th == racing.running[i] IN
      (th.op = "search" /\ th.pc = "done") =>
         /\ ~th.raised
         /\ th.scores \in { bm25_search(racing.old, th.query, th.top_k),
                            bm25_search(Refitted, th.query, th.top_k) }

(***************************************************************************)
(* The application and its sessions: the state machine                     *)
(***************************************************************************)
InitApp == SearchIdle /\ FeedbackIdle /\ RagUnused /\ AnalyzerIdle /\ CallersIdle

\* The session a client's cookie carries (none yet: an empty one).
SessionOf(c) ==
    IF c \in DOMAIN sessions.cookie THEN sessions.cookie[c] ELSE EmptySession

Answered(c, endpoint, out) ==
    sessions' = [cookie |-> [d \in DOMAIN sessions.cookie \cup {c} |->
                               IF d = c THEN out.session ELSE SessionOf(d)],
                 log |-> Append(sessions.log,
                                [client |-> c, endpoint |-> endpoint,
                                 status |-> out.response.status,
                                 detail |-> out.response.detail])]

LoginAttempt ==
    /\ Len(sessions.log) < MaxRequests
    /\ \E c \in Clients, u \in Usernames, p \in Passwords :
         Answered(c, "POST /auth/login", login(SessionOf(c), u, p))
    /\ UNCHANGED <<fbVars, searchVars, ragVars, analyzerVars, threads, racing,
                   monitor>>

Logout ==
    /\ Len(sessions.log) < MaxRequests
    /\ \E c \in Clients :
         \E out \in dispatch(SessionOf(c), "POST /auth/logout") :
           Answered(c, "POST /auth/logout", out)
    /\ UNCHANGED <<fbVars, searchVars, ragVars, analyzerVars, threads, racing,
                   monitor>>

ProtectedRequest ==
    /\ Len(sessions.log) < MaxRequests
    /\ \E c \in Clients, e \in ProtectedEndpoints \ {"POST /auth/logout"} :
         \E out \in dispatch(SessionOf(c), e) : Answered(c, e, out)
    /\ UNCHANGED <<fbVars, searchVars, ragVars, analyzerVars, threads, racing,
                   monitor>>

NextApp == LoginAttempt \/ Logout \/ ProtectedRequest

SpecApp == InitApp /\ [][NextApp]_vars

\* The client's most recent successful login before request i has not been
\* followed by a logout.
LoggedInAt(c, i) ==
    \E j \in 1..(i - 1) :
      /\ sessions.log[j].client = c
      /\ sessions.log[j].endpoint = "POST /auth/login"
      /\ sessions.log[j].status = 200
      /\ \A l \in (j + 1)..(i - 1) :
           ~ /\ sessions.log[l].client = c
             /\ sessions.log[l].endpoint = "POST /auth/logout"
             /\ sessions.log[l].status = 200

\* C17: a request to a protected endpoint is answered 401 'Authentication
\* required' unless the client's most recent successful login has not been
\* followed by a logout; and a session is authenticated only after a
\* successful login of its own client.
C17_ProtectedEndpointsRequireAuth ==
    /\ \A i \in DOMAIN sessions.log :
         LET r == sessions.log[i] IN
         (r.endpoint \in ProtectedEndpoints /\ ~LoggedInAt(r.client, i)) =>
            (r.status = 401 /\ r.detail = "Authentication required")
    /\ \A c \in DOMAIN sessions.cookie :
         is_authenticated(sessions.cookie[c]) =>
            LoggedInAt(c, Len(sessions.log) + 1)

(***************************************************************************)
(* QueryAnalyzer: the state machine and properties                         *)
(***************************************************************************)
InitAnalyzer ==
    AnalyzerIdle /\ FeedbackIdle /\ SearchIdle /\ RagUnused /\ CallersIdle

QueryFeatures ==
    [definition_score : 0..MaxMatches, summary_score : 0..MaxMatches,
     reasoning_score : 0..MaxMatches, entity_score : 0..MaxMatches,
     complex_score : 0..MaxMatches, simple_score : 0..MaxMatches,
     query_length : QueryLengths]

\* QueryAnalyzer.analyze_query(query)
AnalyzeQuery ==
    /\ analysis = NoCall
    /\ \E query \in QueryFeatures :
         analysis' = [op |-> "analyze_query", query |-> query,
                      result |-> analyze_query(query)]
    /\ UNCHANGED exceptAnalyzer

\* analyze_query returns the QueryAnalysis.
ReturnAnalysis ==
    /\ analysis # NoCall
    /\ analysis' = NoCall
    /\ UNCHANGED exceptAnalyzer

NextAnalyzer == AnalyzeQuery \/ ReturnAnalysis

SpecAnalyzer == InitAnalyzer /\ [][NextAnalyzer]_vars

ComplexityRank(complexity) ==
    CASE complexity = "simple" -> 1
      [] complexity = "medium" -> 2
      [] complexity = "complex" -> 3

\* C8: for the type of the analysed query, _determine_optimal_k gives a
\* simple query no more than a medium one and a medium one no more than a
\* complex one, and the optimal_k of the analysis, like that of every
\* (type, complexity) pair, lies in 2..15.
C8_OptimalKMonotoneInRange ==
    analysis # NoCall =>
        LET t == analysis.result.query_type
        IN /\ analysis.result.optimal_k
                = determine_optimal_k(t, analysis.result.complexity)
           /\ analysis.result.optimal_k \in 2..15
           /\ determine_optimal_k(t, "simple") <= determine_optimal_k(t, "medium")
           /\ determine_optimal_k(t, "medium") <= determine_optimal_k(t, "complex")
           /\ \A c \in Complexities :
                /\ determine_optimal_k(t, c) \in 2..15
                /\ ComplexityRank(c) <= ComplexityRank(analysis.result.complexity)
                     => determine_optimal_k(t, c) <= analysis.result.optimal_k

\* C18: whatever complexity is detected, a query classified definition gets
\* optimal_k <= 3, one classified entity or factual optimal_k <= 5, one
\* classified summary optimal_k >= 4 and one classified reasoning
\* optimal_k >= 5.
C18_OptimalKByType ==
    analysis # NoCall =>
        LET t == analysis.result.query_type
            k == analysis.result.optimal_k
        IN /\ t = "definition" => k <= 3
           /\ t \in {"entity", "factual"} => k <= 5
           /\ t = "summary" => k >= 4
           /\ t = "reasoning" => k >= 5

\* A simple reasoning query, which gets exactly 5.
C18_Witness ==
    /\ analysis # NoCall
    /\ analysis.result.query_type = "reasoning"
    /\ analysis.result.complexity = "simple"
    /\ analysis.result.optimal_k = 5

\* A simple definition query, whose product 2 * 0.8 falls below the range.
C8_Witness ==
    /\ analysis # NoCall
    /\ analysis.result.query_type = "definition"
    /\ analysis.result.complexity = "simple"
    /\ analysis.result.optimal_k = 2

\* A complex reasoning query, the largest optimal_k.
C8_WitnessComplex ==
    /\ analysis # NoCall
    /\ analysis.result.query_type = "reasoning"
    /\ analysis.result.complexity = "complex"
    /\ analysis.result.optimal_k = 10

(***************************************************************************)
(* PerformanceMonitor: the state machine                                   *)
(*                                                                         *)
(* Request handlers, the caller of start_monitoring and stop_monitoring,   *)
(* and the threads that run _monitoring_loop share one PerformanceMonitor  *)
(* with no lock.  A loop thread's steps are the while test, the body and the sleep.  *)
(***************************************************************************)
QueryMetricsInputs ==
    {[processing_time |-> 2, answer_quality_score |-> 4000,
      confidence_score |-> 800, error_occurred |-> FALSE],
     [processing_time |-> 45, answer_quality_score |-> 4000,
      confidence_score |-> 800, error_occurred |-> TRUE]}
MemoryReadings == {1024, 4096}         \* psutil.virtual_memory().used, MB
CpuReadings == {50}                    \* psutil.cpu_percent(interval=1)
Timestamps == {1}                      \* int(time.time())
SessionIds == {"s1"}

InitMonitor == SearchIdle /\ FeedbackIdle /\ RagUnused /\ AnalyzerIdle /\ CallersIdle

exceptMonitor == <<fbVars, searchVars, ragVars, analyzerVars, threads, racing,
                   sessions>>

Did(self, by) == [self EXCEPT !.last = by]

LoopAt(i, pc) == monitor.loops[i].pc = pc

\* get_performance_monitor(), the first call: construct and start.
GetPerformanceMonitor ==
    /\ ~monitor.created
    /\ monitor' = Did(start_monitoring(PerformanceMonitor), "get_performance_monitor")
    /\ UNCHANGED exceptMonitor

StartMonitoring ==
    /\ monitor.created
    /\ monitor.caller = "idle"
    /\ monitor.monitoring_active \/ Len(monitor.loops) < MaxLoops
    /\ monitor' = Did(start_monitoring(monitor), "start_monitoring")
    /\ UNCHANGED exceptMonitor

StopMonitoring ==
    /\ monitor.created
    /\ monitor.caller = "idle"
    /\ monitor' = Did(stop_monitoring(monitor), "stop_monitoring")
    /\ UNCHANGED exceptMonitor

\* self.monitor_thread.join(timeout=5.0) returns: the thread has ended, or
\* five seconds have passed of the thirty it sleeps.
JoinReturns ==
    /\ monitor.caller = "joining"
    /\ \/ LoopAt(monitor.monitor_thread, "done")
       \/ LoopAt(monitor.monitor_thread, "sleep")
    /\ monitor' = Did([monitor EXCEPT !.caller = "idle"], "join")
    /\ UNCHANGED exceptMonitor

\* while self.monitoring_active:
LoopTest ==
    \E i \in DOMAIN monitor.loops :
      /\ LoopAt(i, "while")
      /\ monitor.monitoring_active =>
             Len(monitor.health_metrics) < MaxSnapshots
      /\ monitor' =
           Did([monitor EXCEPT
                  !.loops[i] =
                     IF monitor.monitoring_active
                     THEN [@ EXCEPT !.pc = "try",
                                     !.resumed = @ \/ monitor.loops[i].stopped]
                     ELSE [@ EXCEPT !.pc = "done"]],
               "loop")
      /\ UNCHANGED exceptMonitor

\* The body of the loop: the snapshot is appended, the alerts are checked and
\* the files are written.  import psutil may raise, and the except branch
\* sleeps as the body does.
monitoring_iteration(self, memory, cpu, t) ==
    LET s1 == [self EXCEPT
                 !.health_metrics =
                    deque_append(@, collect_system_health(self, memory, cpu),
                                 max_health_memory)]
        s2 == [s1 EXCEPT !.active_alerts = check_performance_alerts(s1, t)]
    IN save_metrics(s2)

LoopBody ==
    \E i \in DOMAIN monitor.loops :
      /\ LoopAt(i, "try")
      /\ \/ \E memory \in MemoryReadings, cpu \in CpuReadings, t \in Timestamps :
              monitor' =
                Did([monitoring_iteration(monitor, memory, cpu, t)
                        EXCEPT !.loops[i].pc = "sleep"], "loop")
         \/ monitor' = Did([monitor EXCEPT !.loops[i].pc = "sleep"], "loop")
      /\ UNCHANGED exceptMonitor

\* time.sleep(30) returns.
LoopWake ==
    \E i \in DOMAIN monitor.loops :
      /\ LoopAt(i, "sleep")
      /\ monitor' = Did([monitor EXCEPT !.loops[i].pc = "while"], "loop")
      /\ UNCHANGED exceptMonitor

RecordQueryMetrics ==
    /\ monitor.created
    /\ Len(monitor.query_metrics) < MaxMetrics
    /\ \E metrics \in QueryMetricsInputs, t \in Timestamps :
         monitor' = Did(record_query_metrics(monitor, metrics, t),
                        "request")
    /\ UNCHANGED exceptMonitor

ResolveAlert ==
    /\ monitor.created
    /\ \E i \in DOMAIN monitor.active_alerts :
         monitor' =
           Did([monitor EXCEPT
                  !.active_alerts =
                     resolve_alert(@, monitor.active_alerts[i].alert_id)],
               "request")
    /\ UNCHANGED exceptMonitor

AddSession ==
    /\ monitor.created
    /\ \E session_id \in SessionIds :
         monitor' = Did([monitor EXCEPT !.current_sessions = @ \cup {session_id}],
                        "request")
    /\ UNCHANGED exceptMonitor

RemoveSession ==
    /\ monitor.created
    /\ \E session_id \in SessionIds :
         monitor' = Did([monitor EXCEPT !.current_sessions = @ \ {session_id}],
                        "request")
    /\ UNCHANGED exceptMonitor

NextMonitor ==
    \/ GetPerformanceMonitor
    \/ StartMonitoring
    \/ StopMonitoring
    \/ JoinReturns
    \/ LoopTest
    \/ LoopBody
    \/ LoopWake
    \/ RecordQueryMetrics
    \/ ResolveAlert
    \/ AddSession
    \/ RemoveSession

SpecMonitor == InitMonitor /\ [][NextMonitor]_vars

\* What request-path operations modify.
RequestPathState(self) ==
    <<self.query_metrics, self.active_alerts, self.current_sessions, self.files>>

\* C27: a step of the background loop only reads: it leaves alone the query
\* metrics, the alerts, the sessions and the files, which
\* record_query_metrics, resolve_alert, add_session and remove_session modify;
\* and whatever the loop threads are doing, those operations can run.
C27_LoopOnlyReads ==
    [][ /\ monitor'.last = "loop"
            => RequestPathState(monitor') = RequestPathState(monitor)
        /\ monitor.created
            => /\ ENABLED AddSession
               /\ ENABLED RemoveSession
               /\ Len(monitor.query_metrics) < MaxMetrics
                     => ENABLED RecordQueryMetrics ]_vars

\* What does hold: of the request path's state the loop leaves alone the
\* query metrics and the sessions, and no request-path operation waits.
C27_LoopLeavesMetricsAndSessions ==
    [][ /\ monitor'.last = "loop"
            => /\ monitor'.query_metrics = monitor.query_metrics
               /\ monitor'.current_sessions = monitor.current_sessions
        /\ monitor.created
            => /\ ENABLED AddSession
               /\ ENABLED RemoveSession
               /\ Len(monitor.query_metrics) < MaxMetrics
                     => ENABLED RecordQueryMetrics ]_vars

Alive == {i \in DOMAIN monitor.loops : monitor.loops[i].pc # "done"}

\* C30: at most one thread runs _monitoring_loop at any time, a
\* start_monitoring call made while monitoring is active starts nothing, and a
\* loop that stop_monitoring stopped does not pass its while test again.
C30_AtMostOneLoop ==
    /\ Cardinality(Alive) <= 1
    /\ \A i \in DOMAIN monitor.loops : ~monitor.loops[i].resumed

\* What does hold: while monitoring_active is set the loops are as
\* start_monitoring found them.
C30_StartIsIdempotentWhileActive ==
    [][ (monitor'.last = "start_monitoring" /\ monitor.monitoring_active)
        => monitor'.loops = monitor.loops ]_vars

====
